---- MODULE Spec2Model ----
(***************************************************************************)
(* The planner-agent loop of BlenderAI (src/agent.py) and its output       *)
(* parser (src/planner.py), as a state machine.                            *)
(*                                                                         *)
(* Text is modelled as a sequence of characters, one string per character  *)
(* ("bq" stands for the backtick, "U+274C" for the cross-mark character),  *)
(* so that slicing, stripping, prefix tests and the search for the         *)
(* outermost braces are computed as the code computes them.                *)
(***************************************************************************)
EXTENDS Integers, Sequences, FiniteSets, TLC

VARIABLES
    pc,                     \* where the caller / the run coroutine stands
    max_steps,              \* MiniPlannerAgent.max_steps
    wrapped,                \* TRUE when run was entered through run_with_timeout
    user_input,             \* the argument of run
    step_count,             \* local step_count of run
    memory,                 \* self.state.memory
    detailed_steps_buffer,  \* self.state.detailed_steps_buffer
    planner_decision,       \* local planner_decision of run
    result,                 \* what run / run_with_timeout returned
    planner_calls,          \* history: planner requests started
    tool_calls,             \* history: tool invocations started
    event,                  \* history: what the last step of the run did
    input,                  \* the text under parse, as <<prefix, body, suffix>>
    parsed,                 \* history: outcome of the last parse_planner_output
    in_flight,              \* the planner / tool calls started and not yet over
    cancelled,              \* the calls that asyncio.wait_for cancelled
    context_summary,        \* context_summary of the last planner request
    last_outcome,           \* history: how the previous query of the session ended
    description,            \* the argument of generate_blender_script
    attempt,                \* local attempt of generate_blender_script
    generated_code,         \* local generated_code of generate_blender_script
    script,                 \* what generate_blender_script returned
    llm_response,           \* history: the last answer of a script model
    attempts_log,           \* history: how each attempt so far ended
    generation_requests,    \* history: requests sent to script_generation_llm
    validation_requests     \* history: requests sent to script_validation_llm

vars == <<pc, max_steps, wrapped, user_input, step_count, memory,
          detailed_steps_buffer, planner_decision, result, planner_calls,
          tool_calls, event, input, parsed, in_flight, cancelled,
          context_summary, last_outcome, description, attempt, generated_code,
          script, llm_response, attempts_log, generation_requests,
          validation_requests>>

\* the state of the agent loop, but for pc
agent_vars == <<max_steps, wrapped, user_input, step_count, memory,
                detailed_steps_buffer, planner_decision, result, planner_calls,
                tool_calls, event, input, parsed, in_flight, cancelled,
                context_summary, last_outcome>>

\* the state of generate_blender_script, but for pc
gen_vars == <<description, attempt, generated_code, script, llm_response,
              attempts_log, generation_requests, validation_requests>>

\* no answer of a script model yet
NoResponse == [fault |-> FALSE, content |-> <<>>]

\* generate_blender_script has not been entered
GenIdle ==
    /\ description = <<>>
    /\ attempt = 0
    /\ generated_code = <<>>
    /\ script = <<>>
    /\ llm_response = NoResponse
    /\ attempts_log = <<>>
    /\ generation_requests = 0
    /\ validation_requests = 0

-----------------------------------------------------------------------------
(* Bounds of the model.                                                    *)

\* max_steps ranges over 0..MaxStepsBound
MaxStepsBound == 2
\* planner requests per run explored by the model
MaxPlannerCalls == 4

-----------------------------------------------------------------------------
(* String literals of the source.                                          *)

\* "```json"
S_FenceJson ==
    <<"bq","bq","bq","j","s","o","n">>
\* "U+274C Could not parse Gemini planner output."
S_Fallback ==
    <<"U+274C"," ","C","o","u","l","d"," ","n","o","t"," ","p","a","r","s","e"," ","G","e","m",
      "i","n","i"," ","p","l","a","n","n","e","r"," ","o","u","t","p","u","t",".">>
\* "final"
K_final ==
    <<"f","i","n","a","l">>
\* "tool_call"
K_tool_call ==
    <<"t","o","o","l","_","c","a","l","l">>
\* "tool_input"
K_tool_input ==
    <<"t","o","o","l","_","i","n","p","u","t">>
\* "answer"
K_answer ==
    <<"a","n","s","w","e","r">>
\* "true"
L_true ==
    <<"t","r","u","e">>
\* "false"
L_false ==
    <<"f","a","l","s","e">>
\* "null"
L_null ==
    <<"n","u","l","l">>
\* "RunBlenderScript"
S_RunBlenderScript ==
    <<"R","u","n","B","l","e","n","d","e","r","S","c","r","i","p","t">>
\* "Planner"
S_Planner ==
    <<"P","l","a","n","n","e","r">>
\* "Error"
S_Error ==
    <<"E","r","r","o","r">>
\* "System"
S_System ==
    <<"S","y","s","t","e","m">>
\* "max_steps_reached"
S_max_steps_reached ==
    <<"m","a","x","_","s","t","e","p","s","_","r","e","a","c","h","e","d">>
\* "timeout"
S_timeout ==
    <<"t","i","m","e","o","u","t">>
\* "User requested: "
S_UserRequested ==
    <<"U","s","e","r"," ","r","e","q","u","e","s","t","e","d",":"," ">>
\* "Unknown tool: "
S_UnknownTool ==
    <<"U","n","k","n","o","w","n"," ","t","o","o","l",":"," ">>
\* "Error: "
S_ErrorColon ==
    <<"E","r","r","o","r",":"," ">>
\* "Tool `"
S_ToolBq ==
    <<"T","o","o","l"," ","bq">>
\* "` returned: "
S_BqReturned ==
    <<"bq"," ","r","e","t","u","r","n","e","d",":"," ">>
\* "Tool execution failed: "
S_ToolExecFailed ==
    <<"T","o","o","l"," ","e","x","e","c","u","t","i","o","n"," ","f","a","i","l","e","d",":",
      " ">>
\* "Tool error: "
S_ToolError ==
    <<"T","o","o","l"," ","e","r","r","o","r",":"," ">>
\* "Planner error: "
S_PlannerError ==
    <<"P","l","a","n","n","e","r"," ","e","r","r","o","r",":"," ">>
\* "Agent execution failed: "
S_AgentFailed ==
    <<"A","g","e","n","t"," ","e","x","e","c","u","t","i","o","n"," ","f","a","i","l","e","d",
      ":"," ">>
\* "Maximum steps ("
S_MaxStepsA ==
    <<"M","a","x","i","m","u","m"," ","s","t","e","p","s"," ","(">>
\* ") reached. Task may be incomplete."
S_MaxStepsB ==
    <<")"," ","r","e","a","c","h","e","d","."," ","T","a","s","k"," ","m","a","y"," ","b","e",
      " ","i","n","c","o","m","p","l","e","t","e",".">>
\* "Agent execution timed out after "
S_TimedOutA ==
    <<"A","g","e","n","t"," ","e","x","e","c","u","t","i","o","n"," ","t","i","m","e","d"," ",
      "o","u","t"," ","a","f","t","e","r"," ">>
\* " seconds"
S_TimedOutB ==
    <<" ","s","e","c","o","n","d","s">>
\* "None"
S_None ==
    <<"N","o","n","e">>

-----------------------------------------------------------------------------
(* Python / JSON values.  One record shape for every value, so that any    *)
(* two values can be compared.                                             *)

PyStr(s) == [t |-> "str", s |-> s, b |-> FALSE, m |-> <<>>]
PyBool(b) == [t |-> "bool", s |-> <<>>, b |-> b, m |-> <<>>]
PyNone == [t |-> "null", s |-> <<>>, b |-> FALSE, m |-> <<>>]
\* m: the members in document order, each [k |-> key, v |-> value]
PyDict(m) == [t |-> "obj", s |-> <<>>, b |-> FALSE, m |-> m]

\* str(int) for a natural number
Digit(n) == <<"0","1","2","3","4","5","6","7","8","9">>[n + 1]

RECURSIVE IntToStr(_)
IntToStr(n) == IF n < 10 THEN <<Digit(n)>> ELSE IntToStr(n \div 10) \o <<Digit(n % 10)>>

\* str.startswith
StartsWith(s, p) == Len(s) >= Len(p) /\ SubSeq(s, 1, Len(p)) = p

\* the whitespace of the alphabet
Ws == {" ", "\n"}

RECURSIVE SkipWs(_, _)
SkipWs(s, i) == IF i <= Len(s) /\ s[i] \in Ws THEN SkipWs(s, i + 1) ELSE i

RECURSIVE SkipWsBack(_, _)
SkipWsBack(s, j) == IF j >= 1 /\ s[j] \in Ws THEN SkipWsBack(s, j - 1) ELSE j

\* str.strip()
Strip(s) == SubSeq(s, SkipWs(s, 1), SkipWsBack(s, Len(s)))

\* s[start:stop] for start >= 0 and stop < 0
Slice(s, start, stop) ==
    LET lo == IF start > Len(s) THEN Len(s) ELSE start
        hi == IF Len(s) + stop < 0 THEN 0 ELSE Len(s) + stop
    IN  SubSeq(s, lo + 1, hi)

-----------------------------------------------------------------------------
(* JSON text -> value: objects, strings, true / false / null, with         *)
(* whitespace between tokens.  The alphabet of the inputs has no           *)
(* backslash, digit or bracket outside a string, so escapes, numbers and   *)
(* arrays do not occur at a value position.                                *)

JFail == [ok |-> FALSE, v |-> PyNone, next |-> 0]
JOk(v, next) == [ok |-> TRUE, v |-> v, next |-> next]

Match(s, i, lit) == i + Len(lit) - 1 <= Len(s) /\ SubSeq(s, i, i + Len(lit) - 1) = lit

\* index of the quote closing a string whose text starts at j; 0 when the
\* string is unterminated or holds a raw line break
RECURSIVE FindQuote(_, _)
FindQuote(s, j) ==
    IF j > Len(s) \/ s[j] = "\n" THEN 0
    ELSE IF s[j] = "\"" THEN j
    ELSE FindQuote(s, j + 1)

RECURSIVE ParseValue(_, _)
RECURSIVE ParseMembers(_, _, _)

\* a string whose opening quote is at i and whose closing quote is at j
StringAt(s, i, j) == IF j = 0 THEN JFail ELSE JOk(PyStr(SubSeq(s, i + 1, j - 1)), j + 1)

\* an object whose first token after the brace is at k
ObjectAt(s, k) ==
    IF k <= Len(s) /\ s[k] = "}" THEN JOk(PyDict(<<>>), k + 1)
    ELSE ParseMembers(s, k, <<>>)

ParseValue(s, i) ==
    IF i > Len(s) THEN JFail
    ELSE IF s[i] = "\"" THEN StringAt(s, i, FindQuote(s, i + 1))
    ELSE IF Match(s, i, L_true) THEN JOk(PyBool(TRUE), i + Len(L_true))
    ELSE IF Match(s, i, L_false) THEN JOk(PyBool(FALSE), i + Len(L_false))
    ELSE IF Match(s, i, L_null) THEN JOk(PyNone, i + Len(L_null))
    ELSE IF s[i] = "{" THEN ObjectAt(s, SkipWs(s, i + 1))
    ELSE JFail

\* after a member: a closing brace at d ends the object, a comma continues it
AfterMember(s, d, acc) ==
    IF d > Len(s) THEN JFail
    ELSE IF s[d] = "}" THEN JOk(PyDict(acc), d + 1)
    ELSE IF s[d] = "," THEN ParseMembers(s, SkipWs(s, d + 1), acc)
    ELSE JFail

\* after a member's value
AfterValue(s, acc, key, val) ==
    IF ~val.ok THEN JFail
    ELSE AfterMember(s, SkipWs(s, val.next), Append(acc, [k |-> key.v.s, v |-> val.v]))

\* after a member's key: the colon at c, then the value
AfterKey(s, acc, key, c) ==
    IF c > Len(s) \/ s[c] # ":" THEN JFail
    ELSE AfterValue(s, acc, key, ParseValue(s, SkipWs(s, c + 1)))

MemberAt(s, acc, key) ==
    IF ~key.ok THEN JFail ELSE AfterKey(s, acc, key, SkipWs(s, key.next))

\* the members of an object from the key at i on, up to the closing brace
ParseMembers(s, i, acc) ==
    IF i > Len(s) \/ s[i] # "\"" THEN JFail
    ELSE MemberAt(s, acc, ParseValue(s, i))

\* r is a value that ends where the text ends
WholeText(s, r) == IF r.ok /\ SkipWs(s, r.next) = Len(s) + 1 THEN r ELSE JFail

\* the whole text is one JSON value
json_loads(s) == WholeText(s, ParseValue(s, SkipWs(s, 1)))

\* the value of `key` in an object: the last member of that name wins
HasKey(m, key) == \E i \in 1..Len(m) : m[i].k = key
GetKey(m, key) ==
    LET last == CHOOSE i \in 1..Len(m) :
                    m[i].k = key /\ \A j \in (i + 1)..Len(m) : m[j].k # key
    IN  m[last].v

-----------------------------------------------------------------------------
(* PlannerResponseModel and its validation.                                *)

Decision(final, tool_call, tool_input, answer) ==
    [final |-> final, tool_call |-> tool_call, tool_input |-> tool_input,
     answer |-> answer]

\* the text forms a bool field accepts besides true / false
BoolTrueText == {<<"1">>, <<"t">>, <<"y">>, <<"o","n">>, <<"y","e","s">>, L_true}
BoolFalseText == {<<"0">>, <<"f">>, <<"n">>, <<"n","o">>, <<"o","f","f">>, L_false}

\* final: bool, required
FinalOk(v) == v.t = "bool" \/ (v.t = "str" /\ v.s \in BoolTrueText \cup BoolFalseText)
FinalOf(v) == IF v.t = "bool" THEN v.b ELSE v.s \in BoolTrueText

\* tool_call: Optional[str] = None ; tool_input: Optional[dict] = None
OptionalOk(m, key, type) == HasKey(m, key) => GetKey(m, key).t \in {type, "null"}
OptionalOf(m, key) == IF HasKey(m, key) THEN GetKey(m, key) ELSE PyNone

\* [ok, d]: ok = FALSE stands for the ValidationError the call raises
ValidationError == [ok |-> FALSE, d |-> Decision(TRUE, PyNone, PyNone, <<>>)]

\* the fields of a JSON object validated against PlannerResponseModel
ValidateMembers(m) ==
    IF /\ HasKey(m, K_final) /\ FinalOk(GetKey(m, K_final))
       /\ HasKey(m, K_answer) /\ GetKey(m, K_answer).t = "str"
       /\ OptionalOk(m, K_tool_call, "str")
       /\ OptionalOk(m, K_tool_input, "obj")
    THEN [ok |-> TRUE,
          d |-> Decision(FinalOf(GetKey(m, K_final)), OptionalOf(m, K_tool_call),
                         OptionalOf(m, K_tool_input), GetKey(m, K_answer).s)]
    ELSE ValidationError

ValidateJson(j) == IF ~j.ok \/ j.v.t # "obj" THEN ValidationError ELSE ValidateMembers(j.v.m)

model_validate_json(text) == ValidateJson(json_loads(text))

-----------------------------------------------------------------------------
(* parse_planner_output.                                                   *)

\* re.search(r"\{.*\}", raw, re.DOTALL): from the first "{" that has a "}"
\* after it to the last "}" ; <<>> when there is no match
BraceMatch(raw) ==
    LET opens == {i \in 1..Len(raw) : raw[i] = "{"}
        closes == {i \in 1..Len(raw) : raw[i] = "}"}
        ok == {i \in opens : \E j \in closes : j > i}
    IN  IF ok = {} THEN <<>>
        ELSE LET first == CHOOSE i \in ok : \A k \in ok : i <= k
                 last == CHOOSE j \in closes : \A k \in closes : k <= j
             IN  SubSeq(raw, first, last)

FallbackDecision == Decision(TRUE, PyNone, PyNone, S_Fallback)

\* the text after the fence test of the first try block
Unfenced(raw) == IF StartsWith(raw, S_FenceJson) THEN Strip(Slice(raw, 7, -3)) ELSE raw

\* outcomes of a try block: the function returns d, an exception is raised,
\* or control falls through to the statement after the block
Returns(d) == [kind |-> "return", d |-> d]
Raises == [kind |-> "raise", d |-> FallbackDecision]
FallsThrough == [kind |-> "fall", d |-> FallbackDecision]

\* a validation that succeeds returns from the function, one that fails raises
Outcome(validated) == IF validated.ok THEN Returns(validated.d) ELSE Raises

\* the body of the outer try: validate the unfenced text
FirstTry(text) == Outcome(model_validate_json(text))

\* the body of the inner try: validate the brace match of the reassigned raw
ValidateMatch(match) ==
    IF match = <<>> THEN FallsThrough ELSE Outcome(model_validate_json(match))

SecondTry(text) == ValidateMatch(BraceMatch(text))

\* the inner try without its handler
ExceptPass_Missing(outcome) == outcome

\* "except Exception: pass" around the inner try
ExceptPass(outcome) == IF outcome.kind = "raise" THEN FallsThrough ELSE outcome

\* the function's result from the outcomes of its two try blocks
\* [raised, d]: raised = TRUE stands for an exception leaving the function
AfterTries(first, second) ==
    IF first.kind = "return" THEN [raised |-> FALSE, d |-> first.d]
    ELSE IF second.kind = "return" THEN [raised |-> FALSE, d |-> second.d]
    ELSE IF second.kind = "raise" THEN [raised |-> TRUE, d |-> second.d]
    ELSE [raised |-> FALSE, d |-> FallbackDecision]

ParseText(text) == AfterTries(FirstTry(text), ExceptPass(SecondTry(text)))

parse_planner_output(raw) == ParseText(Unfenced(raw))

-----------------------------------------------------------------------------
(* The texts the model feeds to the parser: prefix \o body \o suffix.      *)

\* "{\"final\": true, \"answer\": \"4\"}"
B_Final4 ==
    <<"{","\"","f","i","n","a","l","\"",":"," ","t","r","u","e",","," ","\"","a","n","s","w",
      "e","r","\"",":"," ","\"","4","\"","}">>
\* "{\n  \"final\": false,\n  \"tool_call\": \"RunBlenderScript\",\n  \"tool_input\": {\"description\": \"cube\"},\n  \"answer\": \"go\"\n}"
B_RunTool ==
    <<"{","\n"," "," ","\"","f","i","n","a","l","\"",":"," ","f","a","l","s","e",",","\n"," ",
      " ","\"","t","o","o","l","_","c","a","l","l","\"",":"," ","\"","R","u","n","B","l","e",
      "n","d","e","r","S","c","r","i","p","t","\"",",","\n"," "," ","\"","t","o","o","l","_",
      "i","n","p","u","t","\"",":"," ","{","\"","d","e","s","c","r","i","p","t","i","o","n",
      "\"",":"," ","\"","c","u","b","e","\"","}",",","\n"," "," ","\"","a","n","s","w","e","r",
      "\"",":"," ","\"","g","o","\"","\n","}">>
\* "{\"final\":false,\"tool_call\":\"Nope\",\"tool_input\":{},\"answer\":\"try\"}"
B_Nope ==
    <<"{","\"","f","i","n","a","l","\"",":","f","a","l","s","e",",","\"","t","o","o","l","_",
      "c","a","l","l","\"",":","\"","N","o","p","e","\"",",","\"","t","o","o","l","_","i","n",
      "p","u","t","\"",":","{","}",",","\"","a","n","s","w","e","r","\"",":","\"","t","r","y",
      "\"","}">>
\* "{\"final\":false,\"answer\":\"hm\"}"
B_NoTool ==
    <<"{","\"","f","i","n","a","l","\"",":","f","a","l","s","e",",","\"","a","n","s","w","e",
      "r","\"",":","\"","h","m","\"","}">>
\* "{\"tool_input\":null,\"final\":true,\"answer\":\"ok\",\"note\":\"x\"}"
B_Extra ==
    <<"{","\"","t","o","o","l","_","i","n","p","u","t","\"",":","n","u","l","l",",","\"","f",
      "i","n","a","l","\"",":","t","r","u","e",",","\"","a","n","s","w","e","r","\"",":","\"",
      "o","k","\"",",","\"","n","o","t","e","\"",":","\"","x","\"","}">>
\* "{\"final\":\"no\",\"tool_call\":\"RunBlenderScript\",\"answer\":\"a\"}"
B_LaxBool ==
    <<"{","\"","f","i","n","a","l","\"",":","\"","n","o","\"",",","\"","t","o","o","l","_","c",
      "a","l","l","\"",":","\"","R","u","n","B","l","e","n","d","e","r","S","c","r","i","p","t",
      "\"",",","\"","a","n","s","w","e","r","\"",":","\"","a","\"","}">>
\* "{\"final\":true}"
B_NoAnswer ==
    <<"{","\"","f","i","n","a","l","\"",":","t","r","u","e","}">>
\* "{\"answer\":\"4\"}"
B_NoFinal ==
    <<"{","\"","a","n","s","w","e","r","\"",":","\"","4","\"","}">>
\* "{\"final\":true,\"answer\":\"4\""
B_Truncated ==
    <<"{","\"","f","i","n","a","l","\"",":","t","r","u","e",",","\"","a","n","s","w","e","r",
      "\"",":","\"","4","\"">>
\* "oops"
B_Garbage ==
    <<"o","o","p","s">>
\* "{}"
B_EmptyObj ==
    <<"{","}">>
\* "{\"final\":true,\"answer\":null}"
B_NullAnswer ==
    <<"{","\"","f","i","n","a","l","\"",":","t","r","u","e",",","\"","a","n","s","w","e","r",
      "\"",":","n","u","l","l","}">>
\* "```json"
P_FenceJson ==
    <<"bq","bq","bq","j","s","o","n">>
\* "```json\n"
P_FenceJsonNl ==
    <<"bq","bq","bq","j","s","o","n","\n">>
\* "```\n"
P_FenceNl ==
    <<"bq","bq","bq","\n">>
\* "Sure: "
P_Chatter ==
    <<"S","u","r","e",":"," ">>
\* "{ "
P_Brace ==
    <<"{"," ">>
\* "```"
X_Fence ==
    <<"bq","bq","bq">>
\* "\n```"
X_NlFence ==
    <<"\n","bq","bq","bq">>
\* "\n```\n"
X_NlFenceNl ==
    <<"\n","bq","bq","bq","\n">>
\* " ok"
X_Chatter ==
    <<" ","o","k">>
\* "}``"
X_BraceTicks ==
    <<"}","bq","bq">>
\* "4"
V_4 ==
    <<"4">>
\* "go"
V_go ==
    <<"g","o">>
\* "try"
V_try ==
    <<"t","r","y">>
\* "hm"
V_hm ==
    <<"h","m">>
\* "ok"
V_ok ==
    <<"o","k">>
\* "a"
V_a ==
    <<"a">>
\* "x"
V_x ==
    <<"x">>
\* "Nope"
V_Nope ==
    <<"N","o","p","e">>
\* "description"
V_description ==
    <<"d","e","s","c","r","i","p","t","i","o","n">>
\* "cube"
V_cube ==
    <<"c","u","b","e">>
\* "note"
V_note ==
    <<"n","o","t","e">>
\* "What is 2+2?"
U_WhatIs ==
    <<"W","h","a","t"," ","i","s"," ","2","+","2","?">>
\* "build something"
U_Build ==
    <<"b","u","i","l","d"," ","s","o","m","e","t","h","i","n","g">>
\* "SUCCESS: done"
R_Success ==
    <<"S","U","C","C","E","S","S",":"," ","d","o","n","e">>
\* "Error: Missing 'description' in tool_input."
R_ErrorText ==
    <<"E","r","r","o","r",":"," ","M","i","s","s","i","n","g"," ","'","d","e","s","c","r","i",
      "p","t","i","o","n","'"," ","i","n"," ","t","o","o","l","_","i","n","p","u","t",".">>
\* "boom"
E_boom ==
    <<"b","o","o","m">>
\* "down"
E_down ==
    <<"d","o","w","n">>

NoFields == Decision(TRUE, PyNone, PyNone, <<>>)

\* wf: the text is a JSON object whose members are Decision fields of the
\* declared types; fields: the values written in the text
Bodies ==
    << [text |-> B_Final4, wf |-> TRUE,
        fields |-> Decision(TRUE, PyNone, PyNone, V_4)],
       [text |-> B_RunTool, wf |-> TRUE,
        fields |-> Decision(FALSE, PyStr(S_RunBlenderScript),
                            PyDict(<<[k |-> V_description, v |-> PyStr(V_cube)]>>), V_go)],
       [text |-> B_Nope, wf |-> TRUE,
        fields |-> Decision(FALSE, PyStr(V_Nope), PyDict(<<>>), V_try)],
       [text |-> B_NoTool, wf |-> TRUE,
        fields |-> Decision(FALSE, PyNone, PyNone, V_hm)],
       [text |-> B_Extra, wf |-> TRUE,
        fields |-> Decision(TRUE, PyNone, PyNone, V_ok)],
       [text |-> B_LaxBool, wf |-> FALSE,
        fields |-> Decision(FALSE, PyStr(S_RunBlenderScript), PyNone, V_a)],
       [text |-> B_NoAnswer, wf |-> FALSE, fields |-> NoFields],
       [text |-> B_NoFinal, wf |-> FALSE, fields |-> NoFields],
       [text |-> B_Truncated, wf |-> FALSE, fields |-> NoFields],
       [text |-> B_Garbage, wf |-> FALSE, fields |-> NoFields],
       [text |-> B_EmptyObj, wf |-> FALSE, fields |-> NoFields],
       [text |-> B_NullAnswer, wf |-> FALSE, fields |-> NoFields] >>

FenceLead == {P_FenceJson, P_FenceJsonNl, P_FenceNl}
FenceTrail == {X_Fence, X_NlFence, X_NlFenceNl}
Prefixes == {<<>>} \cup FenceLead \cup {P_Chatter, P_Brace}
Suffixes == {<<>>} \cup FenceTrail \cup {X_Chatter, X_BraceTicks}

Inputs == Prefixes \X (1..Len(Bodies)) \X Suffixes

\* the text of an input
RawOf(in) == in[1] \o Bodies[in[2]].text \o in[3]

NoInput == <<<<>>, 0, <<>>>>
NotParsed == [raised |-> FALSE, d |-> NoFields]

-----------------------------------------------------------------------------
(* The agent: src/agent.py.                                                *)

TOOL_REGISTRY == {S_RunBlenderScript}

\* a registry lookup that would find a tool under every name
ToolRegistered_Any(name) == TRUE

\* self.tools.get(name) is a tool
ToolRegistered(name) == name.t = "str" /\ name.s \in TOOL_REGISTRY

\* the text an f-string gives for a tool_call value (a str or None)
Format(v) == IF v.t = "str" THEN v.s ELSE S_None

\* timeout_seconds of run_with_timeout
timeout_seconds == 300

\* a _log_step that would number the records from 0
LogStep_ZeroBased(buffer, tool, input_data, output_data) ==
    Append(buffer, [step |-> Len(buffer), tool |-> tool,
                    input |-> input_data, output |-> output_data])

\* _log_step: the buffer with one StepDetailModel appended (ts left out)
LogStep(buffer, tool, input_data, output_data) ==
    Append(buffer, [step |-> Len(buffer) + 1, tool |-> tool,
                    input |-> input_data, output |-> output_data])

\* memory.append({"step_summary": text})
Remember(mem, text) == Append(mem, [step_summary |-> text])

UnknownToolMsg(d) == S_UnknownTool \o Format(d.tool_call)
ToolReturnedMsg(d, tool_result) ==
    S_ToolBq \o Format(d.tool_call) \o S_BqReturned \o tool_result
ToolFailedMsg(e) == S_ToolExecFailed \o e
PlannerErrorMsg(e) == S_PlannerError \o e
AgentFailedMsg(e) == S_AgentFailed \o PlannerErrorMsg(e)
MaxStepsMsg == S_MaxStepsA \o IntToStr(max_steps) \o S_MaxStepsB
TimeoutMsg == S_TimedOutA \o IntToStr(timeout_seconds) \o S_TimedOutB

\* "- Step "
S_DashStep ==
    <<"-"," ","S","t","e","p"," ">>
\* ": "
S_ColonSpace ==
    <<":"," ">>
\* "\n"
S_Newline ==
    <<"\n">>
\* "No previous steps."
S_NoPreviousSteps ==
    <<"N","o"," ","p","r","e","v","i","o","u","s"," ","s","t","e","p","s",".">>

\* the text of one memory entry in the planner prompt
StepText(m) == m.step_summary

\* the lines "- Step i: text" of the entries i..Len(mem), concatenated
RECURSIVE StepLines(_, _)
StepLines(mem, i) ==
    IF i > Len(mem) THEN <<>>
    ELSE S_DashStep \o IntToStr(i) \o S_ColonSpace \o StepText(mem[i]) \o S_Newline
         \o StepLines(mem, i + 1)

\* a prompt that would show the last memory entry only
ContextSummary_LastOnly(mem) ==
    IF mem = <<>> THEN S_NoPreviousSteps ELSE StepLines(mem, Len(mem))

\* context_summary of get_planner_llm_response for the memory it is given
ContextSummary(mem) ==
    IF mem = <<>> THEN S_NoPreviousSteps ELSE StepLines(mem, 1)

\* a call of `kind` is over: it leaves the calls in flight
RECURSIVE Over(_, _)
Over(calls, kind) ==
    IF calls = <<>> THEN <<>>
    ELSE IF Head(calls) = kind THEN Tail(calls)
    ELSE <<Head(calls)>> \o Over(Tail(calls), kind)

\* what the planner, the tools and the caller may supply
UserInputs == {U_WhatIs, U_Build}
PlannerInputs ==
    { <<<<>>, 1, <<>>>>, <<P_FenceJsonNl, 2, X_NlFenceNl>>, <<<<>>, 3, <<>>>>,
      <<<<>>, 4, <<>>>>, <<P_Chatter, 10, <<>>>>, <<P_FenceJsonNl, 1, <<>>>> }
\* get_planner_llm_response returns the stripped content; run parses it
PlannerDecisions == [in \in PlannerInputs |-> parse_planner_output(Strip(RawOf(in)))]
ToolResults == {R_Success, R_ErrorText}
ToolFaults == {E_boom}
PlannerFaults == {E_down}

\* AgentState() and the constructor
Init ==
    /\ GenIdle
    /\ pc = "idle"
    /\ max_steps \in 0..MaxStepsBound
    /\ wrapped = FALSE
    /\ user_input = <<>>
    /\ step_count = 0
    /\ memory = <<>>
    /\ detailed_steps_buffer = <<>>
    /\ planner_decision = NoFields
    /\ result = <<>>
    /\ planner_calls = 0
    /\ tool_calls = 0
    /\ event = "init"
    /\ input = NoInput
    /\ parsed = NotParsed
    /\ in_flight = <<>>
    /\ cancelled = <<>>
    /\ context_summary = <<>>
    /\ last_outcome = "none"

\* run(u), or run_with_timeout(u) when w: up to the first test of the loop
RunCall(u, w) ==
    /\ UNCHANGED gen_vars
    /\ pc = "idle"
    /\ last_outcome # "none" => w
    /\ pc' = "loop"
    /\ user_input' = u
    /\ wrapped' = w
    /\ memory' = Remember(memory, S_UserRequested \o u)
    /\ step_count' = 0
    /\ event' = "run"
    /\ UNCHANGED <<max_steps, detailed_steps_buffer, planner_decision, result,
                   planner_calls, tool_calls, input, parsed, in_flight,
                   cancelled, context_summary, last_outcome>>

\* the loop test holds: the planner request is sent and awaited
PlannerRequest ==
    /\ UNCHANGED gen_vars
    /\ pc = "loop"
    /\ step_count < max_steps
    /\ planner_calls < MaxPlannerCalls
    /\ pc' = "planner"
    /\ planner_calls' = planner_calls + 1
    /\ event' = "request"
    /\ context_summary' = ContextSummary(memory)
    /\ in_flight' = Append(in_flight, "planner")
    /\ UNCHANGED <<max_steps, wrapped, user_input, step_count, memory,
                   detailed_steps_buffer, planner_decision, result, tool_calls,
                   input, parsed, cancelled, last_outcome>>

\* the loop test fails: the max-steps exit
MaxStepsReached ==
    /\ UNCHANGED gen_vars
    /\ pc = "loop"
    /\ ~(step_count < max_steps)
    /\ detailed_steps_buffer' =
           LogStep(detailed_steps_buffer, S_System, PyStr(S_max_steps_reached), MaxStepsMsg)
    /\ result' = MaxStepsMsg
    /\ pc' = "done"
    /\ event' = "max_steps"
    /\ UNCHANGED <<max_steps, wrapped, user_input, step_count, memory,
                   planner_decision, planner_calls, tool_calls, input, parsed,
                   in_flight, cancelled, context_summary, last_outcome>>

\* a planner fault that the loop would swallow: logged, then the next iteration
Fatal_Retried(buffer, e) ==
    /\ detailed_steps_buffer' = LogStep(buffer, S_Error, PyStr(user_input), PlannerErrorMsg(e))
    /\ pc' = "loop"
    /\ event' = "planner_fault"
    /\ in_flight' = Over(in_flight, "planner")
    /\ UNCHANGED <<memory, tool_calls, step_count, result>>

\* the except branch of the outer try
Fatal(buffer, e) ==
    /\ detailed_steps_buffer' = LogStep(buffer, S_Error, PyStr(user_input), PlannerErrorMsg(e))
    /\ result' = AgentFailedMsg(e)
    /\ pc' = "done"
    /\ event' = "planner_fault"
    /\ in_flight' = Over(in_flight, "planner")
    /\ UNCHANGED <<memory, tool_calls, step_count>>

\* a final decision that would not end the run
FinalBranch_Continues(d, logged) ==
    /\ detailed_steps_buffer' = logged
    /\ pc' = "loop"
    /\ event' = "final"
    /\ in_flight' = Over(in_flight, "planner")
    /\ UNCHANGED <<memory, tool_calls, step_count, result>>

\* a final decision that would also be written to Memory
FinalBranch_Remembers(d, logged) ==
    /\ detailed_steps_buffer' = logged
    /\ result' = d.answer
    /\ memory' = Remember(memory, d.answer)
    /\ pc' = "done"
    /\ event' = "final"
    /\ in_flight' = Over(in_flight, "planner")
    /\ UNCHANGED <<tool_calls, step_count>>

\* "if planner_decision.final: return planner_decision.answer"
FinalBranch(d, logged) ==
    /\ detailed_steps_buffer' = logged
    /\ result' = d.answer
    /\ pc' = "done"
    /\ event' = "final"
    /\ in_flight' = Over(in_flight, "planner")
    /\ UNCHANGED <<memory, tool_calls, step_count>>

\* an unknown tool name that would count against the step budget
UnknownBranch_Counted(d, logged) ==
    /\ detailed_steps_buffer' = LogStep(logged, S_Error, d.tool_call, UnknownToolMsg(d))
    /\ memory' = Remember(memory, S_ErrorColon \o UnknownToolMsg(d))
    /\ step_count' = step_count + 1
    /\ pc' = "loop"
    /\ event' = "unknown"
    /\ in_flight' = Over(in_flight, "planner")
    /\ UNCHANGED <<result, tool_calls>>

\* an unknown tool name that would end the run
UnknownBranch_Ends(d, logged) ==
    /\ detailed_steps_buffer' = LogStep(logged, S_Error, d.tool_call, UnknownToolMsg(d))
    /\ memory' = Remember(memory, S_ErrorColon \o UnknownToolMsg(d))
    /\ result' = S_ErrorColon \o UnknownToolMsg(d)
    /\ pc' = "done"
    /\ event' = "unknown"
    /\ in_flight' = Over(in_flight, "planner")
    /\ UNCHANGED <<step_count, tool_calls>>

\* "if not tool:" ... "continue"
UnknownBranch(d, logged) ==
    /\ detailed_steps_buffer' = LogStep(logged, S_Error, d.tool_call, UnknownToolMsg(d))
    /\ memory' = Remember(memory, S_ErrorColon \o UnknownToolMsg(d))
    /\ pc' = "loop"
    /\ event' = "unknown"
    /\ in_flight' = Over(in_flight, "planner")
    /\ UNCHANGED <<result, tool_calls, step_count>>

\* a dispatch that would start the tool without awaiting it
DispatchBranch_NotAwaited(d, logged) ==
    /\ detailed_steps_buffer' = logged
    /\ tool_calls' = tool_calls + 1
    /\ pc' = "loop"
    /\ event' = "dispatch"
    /\ in_flight' = Append(Over(in_flight, "planner"), "tool")
    /\ UNCHANGED <<result, memory, step_count>>

\* "await tool(planner_decision.tool_input or {})": the call is made and awaited
DispatchBranch(d, logged) ==
    /\ detailed_steps_buffer' = logged
    /\ tool_calls' = tool_calls + 1
    /\ pc' = "tool"
    /\ event' = "dispatch"
    /\ in_flight' = Append(Over(in_flight, "planner"), "tool")
    /\ UNCHANGED <<result, memory, step_count>>

\* lines 27-41 of run for the parse outcome p: the decision is logged and acted
\* on, up to the next await or the end of the iteration; an exception of the
\* parser would reach the outer handler
Decide(p, logged) ==
    IF p.raised THEN
        /\ Fatal(detailed_steps_buffer, S_None)
        /\ UNCHANGED planner_decision
    ELSE
        /\ planner_decision' = p.d
        /\ IF p.d.final THEN FinalBranch(p.d, logged)
           ELSE IF ~ToolRegistered(p.d.tool_call) THEN UnknownBranch(p.d, logged)
           ELSE DispatchBranch(p.d, logged)

\* the planner answers with the text of `in`, stripped; the text is parsed and
\* the decision acted on
PlannerResponds(in) ==
    /\ UNCHANGED gen_vars
    /\ pc = "planner"
    /\ input' = in
    /\ parsed' = PlannerDecisions[in]
    /\ Decide(PlannerDecisions[in],
              LogStep(detailed_steps_buffer, S_Planner, PyStr(user_input),
                      PlannerDecisions[in].d.answer))
    /\ UNCHANGED <<max_steps, wrapped, user_input, planner_calls, cancelled,
                   context_summary, last_outcome>>

\* the planner call raises e
PlannerFault(e) ==
    /\ UNCHANGED gen_vars
    /\ pc = "planner"
    /\ Fatal(detailed_steps_buffer, e)
    /\ UNCHANGED <<max_steps, wrapped, user_input, planner_decision,
                   planner_calls, input, parsed, cancelled, context_summary,
                   last_outcome>>

\* a tool result that would be logged but not written to Memory
ToolReturns_Forgets(tool_result) ==
    /\ UNCHANGED gen_vars
    /\ pc = "tool"
    /\ detailed_steps_buffer' =
           LogStep(detailed_steps_buffer, Format(planner_decision.tool_call),
                   planner_decision.tool_input, tool_result)
    /\ step_count' = step_count + 1
    /\ pc' = "loop"
    /\ event' = "tool_ok"
    /\ in_flight' = Over(in_flight, "tool")
    /\ UNCHANGED <<max_steps, wrapped, user_input, planner_decision, result,
                   planner_calls, tool_calls, input, parsed, cancelled,
                   context_summary, last_outcome, memory>>

\* the awaited tool returns tool_result
ToolReturns(tool_result) ==
    /\ UNCHANGED gen_vars
    /\ pc = "tool"
    /\ detailed_steps_buffer' =
           LogStep(detailed_steps_buffer, Format(planner_decision.tool_call),
                   planner_decision.tool_input, tool_result)
    /\ memory' = Remember(memory, ToolReturnedMsg(planner_decision, tool_result))
    /\ step_count' = step_count + 1
    /\ pc' = "loop"
    /\ event' = "tool_ok"
    /\ in_flight' = Over(in_flight, "tool")
    /\ UNCHANGED <<max_steps, wrapped, user_input, planner_decision, result,
                   planner_calls, tool_calls, input, parsed, cancelled,
                   context_summary, last_outcome>>

\* a tool fault that would reach the outer handler
ToolRaises_Fatal(e) ==
    /\ UNCHANGED gen_vars
    /\ pc = "tool"
    /\ detailed_steps_buffer' =
           LogStep(detailed_steps_buffer, S_Error, PyStr(user_input), PlannerErrorMsg(e))
    /\ result' = AgentFailedMsg(e)
    /\ pc' = "done"
    /\ event' = "tool_fault"
    /\ in_flight' = Over(in_flight, "tool")
    /\ UNCHANGED <<max_steps, wrapped, user_input, planner_decision, memory,
                   step_count, planner_calls, tool_calls, input, parsed,
                   cancelled, context_summary, last_outcome>>

\* a tool fault that would leave run
ToolRaises_Uncaught(e) ==
    /\ UNCHANGED gen_vars
    /\ pc = "tool"
    /\ pc' = "raised"
    /\ event' = "tool_fault"
    /\ in_flight' = Over(in_flight, "tool")
    /\ UNCHANGED <<max_steps, wrapped, user_input, planner_decision, memory,
                   detailed_steps_buffer, result, step_count, planner_calls,
                   tool_calls, input, parsed, cancelled, context_summary,
                   last_outcome>>

\* a tool fault that would not count against the step budget
ToolRaises_NoCount(e) ==
    /\ UNCHANGED gen_vars
    /\ pc = "tool"
    /\ detailed_steps_buffer' =
           LogStep(detailed_steps_buffer, Format(planner_decision.tool_call),
                   planner_decision.tool_input, ToolFailedMsg(e))
    /\ memory' = Remember(memory, S_ToolError \o ToolFailedMsg(e))
    /\ pc' = "loop"
    /\ event' = "tool_fault"
    /\ in_flight' = Over(in_flight, "tool")
    /\ UNCHANGED <<max_steps, wrapped, user_input, planner_decision, result,
                   planner_calls, tool_calls, input, parsed, cancelled,
                   context_summary, last_outcome, step_count>>

\* the awaited tool raises e
ToolRaises(e) ==
    /\ UNCHANGED gen_vars
    /\ pc = "tool"
    /\ detailed_steps_buffer' =
           LogStep(detailed_steps_buffer, Format(planner_decision.tool_call),
                   planner_decision.tool_input, ToolFailedMsg(e))
    /\ memory' = Remember(memory, S_ToolError \o ToolFailedMsg(e))
    /\ step_count' = step_count + 1
    /\ pc' = "loop"
    /\ event' = "tool_fault"
    /\ in_flight' = Over(in_flight, "tool")
    /\ UNCHANGED <<max_steps, wrapped, user_input, planner_decision, result,
                   planner_calls, tool_calls, input, parsed, cancelled,
                   context_summary, last_outcome>>

\* a timeout that would leave no record
Timeout_NoRecord ==
    /\ UNCHANGED gen_vars
    /\ wrapped
    /\ pc \in {"planner", "tool"}
    /\ result' = TimeoutMsg
    /\ pc' = "done"
    /\ event' = "timeout"
    /\ cancelled' = cancelled \o in_flight
    /\ in_flight' = <<>>
    /\ UNCHANGED <<max_steps, wrapped, user_input, step_count, memory,
                   detailed_steps_buffer, planner_decision, planner_calls,
                   tool_calls, input, parsed, context_summary, last_outcome>>

\* a timeout that would only stop awaiting: the call in flight goes on
Timeout_Detached ==
    /\ UNCHANGED gen_vars
    /\ wrapped
    /\ pc \in {"planner", "tool"}
    /\ detailed_steps_buffer' =
           LogStep(detailed_steps_buffer, S_System, PyStr(S_timeout), TimeoutMsg)
    /\ result' = TimeoutMsg
    /\ pc' = "done"
    /\ event' = "timeout"
    /\ UNCHANGED <<max_steps, wrapped, user_input, step_count, memory,
                   planner_decision, planner_calls, tool_calls, input, parsed,
                   context_summary, last_outcome, in_flight, cancelled>>

\* asyncio.wait_for expires while run awaits the planner or a tool: wait_for
\* cancels the task of run, the CancelledError is raised at the await of the
\* call in flight and passes the "except Exception" handlers of run
Timeout ==
    /\ UNCHANGED gen_vars
    /\ wrapped
    /\ pc \in {"planner", "tool"}
    /\ detailed_steps_buffer' =
           LogStep(detailed_steps_buffer, S_System, PyStr(S_timeout), TimeoutMsg)
    /\ result' = TimeoutMsg
    /\ pc' = "done"
    /\ event' = "timeout"
    /\ cancelled' = cancelled \o in_flight
    /\ in_flight' = <<>>
    /\ UNCHANGED <<max_steps, wrapped, user_input, step_count, memory,
                   planner_decision, planner_calls, tool_calls, input, parsed,
                   context_summary, last_outcome>>

\* a clear_state that would keep the memory of the query
ClearState_KeepsMemory ==
    /\ UNCHANGED gen_vars
    /\ pc = "done"
    /\ wrapped
    /\ pc' = "idle"
    /\ detailed_steps_buffer' = <<>>
    /\ last_outcome' = event
    /\ event' = "clear"
    /\ wrapped' = FALSE
    /\ user_input' = <<>>
    /\ step_count' = 0
    /\ planner_decision' = NoFields
    /\ result' = <<>>
    /\ planner_calls' = 0
    /\ tool_calls' = 0
    /\ input' = NoInput
    /\ parsed' = NotParsed
    /\ cancelled' = <<>>
    /\ context_summary' = <<>>
    /\ UNCHANGED <<max_steps, in_flight, memory>>

\* the interactive session after run_with_timeout returned: clear_state, and
\* the locals and the history of the query are gone
ClearState ==
    /\ UNCHANGED gen_vars
    /\ pc = "done"
    /\ wrapped
    /\ pc' = "idle"
    /\ memory' = <<>>
    /\ detailed_steps_buffer' = <<>>
    /\ last_outcome' = event
    /\ event' = "clear"
    /\ wrapped' = FALSE
    /\ user_input' = <<>>
    /\ step_count' = 0
    /\ planner_decision' = NoFields
    /\ result' = <<>>
    /\ planner_calls' = 0
    /\ tool_calls' = 0
    /\ input' = NoInput
    /\ parsed' = NotParsed
    /\ cancelled' = <<>>
    /\ context_summary' = <<>>
    /\ UNCHANGED <<max_steps, in_flight>>

Next ==
    \/ \E u \in UserInputs, w \in BOOLEAN : RunCall(u, w)
    \/ PlannerRequest
    \/ MaxStepsReached
    \/ \E in \in PlannerInputs : PlannerResponds(in)
    \/ \E e \in PlannerFaults : PlannerFault(e)
    \/ \E r \in ToolResults : ToolReturns(r)
    \/ \E e \in ToolFaults : ToolRaises(e)
    \/ Timeout
    \/ ClearState

Spec == Init /\ [][Next]_vars

-----------------------------------------------------------------------------
(* parse_planner_output alone, on every text of Inputs.                    *)

ParseInit ==
    /\ GenIdle
    /\ pc = "parse"
    /\ input \in Inputs
    /\ parsed = NotParsed
    /\ max_steps = 0
    /\ wrapped = FALSE
    /\ user_input = <<>>
    /\ step_count = 0
    /\ memory = <<>>
    /\ detailed_steps_buffer = <<>>
    /\ planner_decision = NoFields
    /\ result = <<>>
    /\ planner_calls = 0
    /\ tool_calls = 0
    /\ event = "init"
    /\ in_flight = <<>>
    /\ cancelled = <<>>
    /\ context_summary = <<>>
    /\ last_outcome = "none"

ParseCall ==
    /\ UNCHANGED gen_vars
    /\ pc = "parse"
    /\ parsed' = parse_planner_output(RawOf(input))
    /\ pc' = "parsed"
    /\ UNCHANGED <<max_steps, wrapped, user_input, step_count, memory,
                   detailed_steps_buffer, planner_decision, result,
                   planner_calls, tool_calls, event, input, in_flight,
                   cancelled, context_summary, last_outcome>>

ParseNext == ParseCall

ParseSpec == ParseInit /\ [][ParseNext]_vars

-----------------------------------------------------------------------------
(* Properties.                                                             *)

Last(seq) == seq[Len(seq)]

\* the records of the ledger logged under the tool name `name`
RecordsOf(name) ==
    Cardinality({i \in 1..Len(detailed_steps_buffer) : detailed_steps_buffer[i].tool = name})

\* the records logged under the name of a registered tool
ToolRecords ==
    Cardinality({i \in 1..Len(detailed_steps_buffer) :
                    detailed_steps_buffer[i].tool \in TOOL_REGISTRY})

\* the "Unknown tool" error entries of Memory
UnknownEntries ==
    Cardinality({i \in 1..Len(memory) :
                    StartsWith(memory[i].step_summary, S_ErrorColon \o S_UnknownTool)})

\* the run has returned
Returned == pc = "done"

\* the step just taken is the planner's response to the awaited request
Responded == pc = "planner" /\ event' \in {"final", "unknown", "dispatch"}

\* "Agent execution timed out after 300 seconds"
T_TimedOut300 ==
    <<"A","g","e","n","t"," ","e","x","e","c","u","t","i","o","n"," ","t","i","m","e","d"," ",
      "o","u","t"," ","a","f","t","e","r"," ","3","0","0"," ","s","e","c","o","n","d","s">>
\* "Maximum steps (2) reached. Task may be incomplete."
T_MaxSteps2 ==
    <<"M","a","x","i","m","u","m"," ","s","t","e","p","s"," ","(","2",")"," ","r","e","a","c",
      "h","e","d","."," ","T","a","s","k"," ","m","a","y"," ","b","e"," ","i","n","c","o","m",
      "p","l","e","t","e",".">>

-----------------------------------------------------------------------------
(* C1: the max-steps exit and the size of the ledger.                      *)

\* C1 as stated: a run that ends with the max-steps message has made exactly
\* max_steps iterations (planner requests), and its ledger then holds
\* max_steps entries plus one per planner decision record.
C1_Original ==
    (Returned /\ event = "max_steps") =>
        /\ planner_calls = max_steps
        /\ Len(detailed_steps_buffer) = max_steps + RecordsOf(S_Planner)

\* C1 (amended): a run that ends with the max-steps message has dispatched
\* exactly max_steps tools, has made one iteration per dispatched tool plus
\* one per unknown tool name, returns the fixed message, and its ledger
\* holds one Planner record per iteration, max_steps tool records, one
\* Error record per unknown tool name and the final System record.
C1_MaxStepsLedger ==
    (Returned /\ event = "max_steps") =>
        /\ result = MaxStepsMsg
        /\ (max_steps = 2 => result = T_MaxSteps2)
        /\ step_count = max_steps
        /\ tool_calls = max_steps
        /\ ToolRecords = max_steps
        /\ planner_calls = max_steps + RecordsOf(S_Error)
        /\ RecordsOf(S_Planner) = planner_calls
        /\ Last(detailed_steps_buffer).tool = S_System
        /\ Len(detailed_steps_buffer) =
               max_steps + RecordsOf(S_Planner) + RecordsOf(S_Error) + 1

C1_Witness ==
    /\ Returned /\ event = "max_steps"
    /\ max_steps = 2
    /\ RecordsOf(S_Error) >= 1
    /\ \E i \in 1..Len(detailed_steps_buffer) :
           StartsWith(detailed_steps_buffer[i].output, S_ToolExecFailed)

-----------------------------------------------------------------------------
(* C2: a planner that names an unregistered tool on every turn.            *)

\* every planner response of the run so far named an unregistered tool
OnlyUnknownSoFar ==
    /\ planner_calls >= 1
    /\ tool_calls = 0
    /\ event \in {"unknown", "request", "max_steps"}
    /\ Len(memory) = 1 + UnknownEntries

\* C2 as stated, in the form a finite run refutes: for max_steps >= 1, a run
\* whose planner names an unregistered tool on every turn returns the
\* max-steps message with exactly max_steps "Unknown tool" entries in
\* Memory, so Memory never holds more than max_steps of them.
C2_Claim ==
    (max_steps >= 1 /\ OnlyUnknownSoFar) =>
        /\ UnknownEntries <= max_steps
        /\ (Returned => result = MaxStepsMsg /\ UnknownEntries = max_steps)

-----------------------------------------------------------------------------
(* C3: a tool fault is contained.                                          *)

\* C3: the step in which the awaited tool raises leaves the run running at
\* the loop test with no result, appends one record and one Memory entry
\* that carry the "Tool execution failed" text, and counts the step; the
\* step after it is a planner request or the max-steps exit; no run ends in
\* the step of a tool fault.
C3_ToolFaultContained ==
    /\ [](Returned => event # "tool_fault")
    /\ [][ /\ (pc = "tool" /\ event' = "tool_fault") =>
                /\ pc' = "loop"
                /\ result' = result
                /\ step_count' = step_count + 1
                /\ Len(detailed_steps_buffer') = Len(detailed_steps_buffer) + 1
                /\ Last(detailed_steps_buffer').tool = planner_decision.tool_call.s
                /\ StartsWith(Last(detailed_steps_buffer').output, S_ToolExecFailed)
                /\ memory' = Append(memory,
                        [step_summary |-> S_ToolError \o Last(detailed_steps_buffer').output])
           /\ (event = "tool_fault" /\ pc = "loop") => event' \in {"request", "max_steps"}
       ]_vars

C3_Witness ==
    /\ event = "tool_fault"
    /\ pc = "loop"
    /\ step_count < max_steps
    /\ StartsWith(Last(memory).step_summary, S_ToolError \o S_ToolExecFailed)

-----------------------------------------------------------------------------
(* C4: an unknown tool name.                                               *)

\* C4: when the planner's response is a non-final decision whose tool_call is
\* not registered, the step leaves the run running at the loop test with no
\* result and the step counter unchanged, appends the Planner record and an
\* Error record with the "Unknown tool: <name>" text and the Memory entry
\* "Error: Unknown tool: <name>"; the next step is a planner request, made
\* with that Memory.
C4_UnknownToolContinues ==
    [][ /\ (/\ Responded
            /\ ~planner_decision'.final
            /\ ~ToolRegistered(planner_decision'.tool_call)) =>
                /\ event' = "unknown"
                /\ pc' = "loop"
                /\ result' = result
                /\ step_count' = step_count
                /\ tool_calls' = tool_calls
                /\ Len(detailed_steps_buffer') = Len(detailed_steps_buffer) + 2
                /\ Last(detailed_steps_buffer').tool = S_Error
                /\ Last(detailed_steps_buffer').output =
                       S_UnknownTool \o Format(planner_decision'.tool_call)
                /\ memory' = Append(memory,
                       [step_summary |-> S_ErrorColon \o S_UnknownTool
                                             \o Format(planner_decision'.tool_call)])
        /\ (event = "unknown" /\ pc = "loop") =>
                /\ event' = "request"
                /\ pc' = "planner"
                /\ memory' = memory
                /\ StartsWith(Last(memory').step_summary, S_ErrorColon \o S_UnknownTool)
      ]_vars

C4_Witness ==
    /\ event = "request"
    /\ planner_calls >= 2
    /\ planner_decision.tool_call = PyStr(V_Nope)
    /\ Last(memory).step_summary = S_ErrorColon \o S_UnknownTool \o V_Nope
    /\ step_count = 0

-----------------------------------------------------------------------------
(* C5: a planner fault is fatal.                                           *)

\* C5: the step in which the planner call raises appends one record, logged
\* under "Error", returns a message that starts with "Agent execution
\* failed", and ends the run: Memory is unchanged and no planner request
\* or tool call is made afterwards (the only step left is the clear_state
\* of an interactive session, which ends the query).
C5_PlannerFaultFatal ==
    [][ /\ (pc = "planner" /\ event' = "planner_fault") =>
                /\ pc' = "done"
                /\ StartsWith(result', S_AgentFailed)
                /\ Len(detailed_steps_buffer') = Len(detailed_steps_buffer) + 1
                /\ SubSeq(detailed_steps_buffer', 1, Len(detailed_steps_buffer))
                       = detailed_steps_buffer
                /\ Last(detailed_steps_buffer').tool = S_Error
                /\ memory' = memory
        /\ (event = "planner_fault" /\ event' # "clear") =>
                /\ planner_calls' = planner_calls
                /\ tool_calls' = tool_calls
                /\ pc' = "done"
      ]_vars

C5_Witness ==
    /\ Returned
    /\ event = "planner_fault"
    /\ planner_calls >= 2
    /\ result = S_AgentFailed \o S_PlannerError \o E_down

-----------------------------------------------------------------------------
(* C6: a first response that is final.                                     *)

\* the first planner response of the run has been received and no second
\* request made
FirstResponseIn == planner_calls = 1 /\ pc # "planner" /\ input # NoInput

\* C6: when the first planner response of a run on a fresh state parses to
\* final = true, the run has returned that decision's answer after one
\* planner request, with the Planner record as the only Step Record, the
\* user request as the only Memory entry and no tool invoked; the response
\* {"final": true, "answer": "4"} returns "4".
C6_FirstFinal ==
    (FirstResponseIn /\ ~parsed.raised /\ parsed.d.final) =>
        /\ Returned
        /\ event = "final"
        /\ result = parsed.d.answer
        /\ (input = <<<<>>, 1, <<>>>> => result = V_4)
        /\ tool_calls = 0
        /\ Len(memory) = 1
        /\ Len(detailed_steps_buffer) = 1
        /\ detailed_steps_buffer[1] =
               [step |-> 1, tool |-> S_Planner, input |-> PyStr(user_input),
                output |-> parsed.d.answer]

C6_Witness ==
    /\ Returned
    /\ planner_calls = 1
    /\ user_input = U_WhatIs
    /\ input = <<<<>>, 1, <<>>>>
    /\ result = V_4
    /\ Len(detailed_steps_buffer) = 1

-----------------------------------------------------------------------------
(* C7: run and run_with_timeout return text.                               *)

\* C7: no exception leaves run or run_with_timeout, and a call that has
\* returned has returned the final decision's answer, the max-steps message,
\* an "Agent execution failed" message or (under run_with_timeout only) the
\* timeout message.
C7_ReturnsText ==
    /\ pc \in {"idle", "loop", "planner", "tool", "done"}
    /\ Returned =>
        \/ event = "final" /\ planner_decision.final /\ result = planner_decision.answer
        \/ event = "max_steps" /\ result = MaxStepsMsg
        \/ event = "planner_fault" /\ \E e \in PlannerFaults : result = AgentFailedMsg(e)
        \/ event = "timeout" /\ wrapped /\ result = TimeoutMsg

C7_Witness ==
    /\ Returned
    /\ wrapped
    /\ event = "max_steps"
    /\ \E i \in 1..Len(detailed_steps_buffer) :
           StartsWith(detailed_steps_buffer[i].output, S_ToolExecFailed)
    /\ RecordsOf(S_Error) >= 1

-----------------------------------------------------------------------------
(* C8: the timeout of run_with_timeout while a tool is awaited.            *)

-----------------------------------------------------------------------------
(* C9, C10: parse_planner_output, as properties of ParseSpec.              *)

\* the text under parse
Raw == RawOf(input)

\* d is a PlannerResponseModel
IsDecision(d) ==
    /\ d.final \in BOOLEAN
    /\ d.tool_call.t \in {"str", "null"}
    /\ d.tool_input.t \in {"obj", "null"}

\* neither the text nor any of its substrings from a "{" to a "}" validates
NothingParses(raw) ==
    /\ ~model_validate_json(raw).ok
    /\ \A i \in 1..Len(raw) : \A j \in i..Len(raw) :
           (raw[i] = "{" /\ raw[j] = "}") => ~model_validate_json(SubSeq(raw, i, j)).ok

\* C9: parse_planner_output raises on no text and always returns a
\* Decision; on a text that does not validate and has no substring from a
\* "{" to a "}" that validates, the Decision is final with the fixed "Could
\* not parse" answer.
C9_ParserTotal ==
    pc = "parsed" =>
        /\ ~parsed.raised
        /\ IsDecision(parsed.d)
        /\ NothingParses(Raw) =>
               parsed.d = [final |-> TRUE, tool_call |-> PyNone, tool_input |-> PyNone,
                           answer |-> S_Fallback]

C9_Witness ==
    /\ pc = "parsed"
    /\ NothingParses(Raw)
    /\ BraceMatch(Raw) # <<>>
    /\ parsed.d.answer = S_Fallback

\* the input is a well-formed JSON object of Decision fields, bare or with a
\* leading and/or trailing fence marker
WellFormedInput ==
    /\ Bodies[input[2]].wf
    /\ input[1] \in {<<>>} \cup FenceLead
    /\ input[3] \in {<<>>} \cup FenceTrail

\* C10 as stated: on a well-formed JSON object, bare or with a leading
\* and/or trailing fence marker, parse_planner_output returns the Decision
\* whose fields are those written in the JSON.
C10_Claim ==
    (pc = "parsed" /\ WellFormedInput) =>
        /\ ~parsed.raised
        /\ parsed.d = Bodies[input[2]].fields

-----------------------------------------------------------------------------
(* Sequencing, cancellation and the two stores.                            *)

\* C11: the loop is strictly sequential.  In every state at most one planner
\* or tool call is in flight, and a planner request is sent only when no call
\* is in flight, so the planner call of an iteration starts after the planner
\* call and the tool call of the iteration before are over.
C11_Sequential ==
    [][/\ Len(in_flight) <= 1
       /\ Len(in_flight') <= 1
       /\ planner_calls' > planner_calls => in_flight = <<>>
       /\ tool_calls' > tool_calls => in_flight = <<"planner">>]_vars

\* the second planner call is in flight after a tool call that is over
C11_Witness ==
    /\ planner_calls = 2
    /\ tool_calls = 1
    /\ in_flight = <<"planner">>

IsPrefix(a, b) == Len(a) <= Len(b) /\ SubSeq(b, 1, Len(a)) = a

\* C13: the ledger is append-only with 1-based indices.  In every state the
\* k-th record of detailed_steps_buffer has step = k, and every step other
\* than clear_state keeps the earlier records as they were and appends at
\* most the planner record and one more record (tool, error, max-steps or
\* timeout record).
C13_LedgerAppendOnly ==
    [][/\ \A k \in 1..Len(detailed_steps_buffer') : detailed_steps_buffer'[k].step = k
       /\ event' # "clear" =>
             /\ IsPrefix(detailed_steps_buffer, detailed_steps_buffer')
             /\ Len(detailed_steps_buffer') <=
                    Len(detailed_steps_buffer) + (IF event' = "unknown" THEN 2 ELSE 1)]_vars

\* a ledger with planner, error, tool and system records
C13_Witness ==
    /\ Len(detailed_steps_buffer) >= 5
    /\ RecordsOf(S_Planner) >= 2
    /\ RecordsOf(S_Error) >= 1
    /\ ToolRecords >= 1
    /\ Last(detailed_steps_buffer).tool = S_System
    /\ Last(detailed_steps_buffer).step = Len(detailed_steps_buffer)

\* C14: Memory is append-only within a run and keeps insertion order.  Every
\* step other than clear_state keeps the earlier entries as a prefix; when a
\* planner request is sent the first Memory entry is the user request of the
\* run, and the request carries every Memory entry so far, in order.
C14_MemoryAppendOnly ==
    [][/\ event' # "clear" => IsPrefix(memory, memory')
       /\ planner_calls' > planner_calls =>
             /\ Len(memory) >= 1
             /\ memory[1] = [step_summary |-> S_UserRequested \o user_input]
             /\ memory' = memory
             /\ context_summary' = StepLines(memory, 1)]_vars

\* the third planner request of a run, sent with three Memory entries
C14_Witness ==
    /\ pc = "planner"
    /\ planner_calls = 3
    /\ Len(memory) = 3
    /\ context_summary = StepLines(memory, 1)

\* C15: in an interactive session the Agent State is reset between queries.
\* Whenever run_with_timeout is entered, Memory and the ledger are empty,
\* and the run starts with the user request as its only Memory entry,
\* however the previous query ended.
C15_FreshStateEachQuery ==
    [][event' = "run" =>
          /\ memory = <<>>
          /\ detailed_steps_buffer = <<>>
          /\ last_outcome # "none" => wrapped'
          /\ memory' = <<[step_summary |-> S_UserRequested \o user_input']>>
          /\ detailed_steps_buffer' = <<>>]_vars

\* a query entered after the previous query of the session timed out
C15_Witness ==
    /\ last_outcome = "timeout"
    /\ event = "run"
    /\ wrapped
    /\ Len(memory) = 1

\* C16 as stated: every Decision the loop acts on names a registered tool
\* when its final is false.
C16_Original ==
    (planner_calls >= 1 /\ parsed # NotParsed /\ ~parsed.raised /\ ~parsed.d.final)
        => (parsed.d.tool_call.t = "str" /\ parsed.d.tool_call.s \in TOOL_REGISTRY)

\* C16: every Decision the loop acts on has the declared field types, and
\* the loop starts a tool only for a Decision with final false whose
\* tool_call names a registered tool; a Decision with final false and any
\* other tool_call is answered with the unknown-tool error, without a tool.
C16_DispatchRegistered ==
    [][Responded =>
          /\ IsDecision(planner_decision')
          /\ tool_calls' > tool_calls =>
                /\ ~planner_decision'.final
                /\ planner_decision'.tool_call.t = "str"
                /\ planner_decision'.tool_call.s \in TOOL_REGISTRY
          /\ (~planner_decision'.final
                /\ ~(/\ planner_decision'.tool_call.t = "str"
                     /\ planner_decision'.tool_call.s \in TOOL_REGISTRY)) =>
                /\ event' = "unknown"
                /\ tool_calls' = tool_calls
                /\ in_flight' = <<>>]_vars

\* a run that met an unregistered name and an absent name and then
\* dispatched the registered tool
C16_Witness ==
    /\ pc = "tool"
    /\ planner_decision.tool_call = PyStr(S_RunBlenderScript)
    /\ UnknownEntries = 2
    /\ \E k \in 1..Len(detailed_steps_buffer) :
           /\ detailed_steps_buffer[k].tool = S_Error
           /\ detailed_steps_buffer[k].input = PyNone

-----------------------------------------------------------------------------
(* get_execution_summary: src/agent.py.                                    *)

\* "Error"
S_ErrorPrefix ==
    <<"E","r","r","o","r">>
\* "Tool execution failed"
S_ToolExecFailedPrefix ==
    <<"T","o","o","l"," ","e","x","e","c","u","t","i","o","n"," ","f","a","i","l","e","d">>

\* the "success" entry of the summary for the record s
Success(s) ==
    ~StartsWith(s.output, S_ErrorPrefix) /\ ~StartsWith(s.output, S_ToolExecFailedPrefix)

\* get_execution_summary() in the current state (timestamps left out)
get_execution_summary ==
    [total_steps |-> Len(detailed_steps_buffer),
     memory_entries |-> Len(memory),
     steps |-> [k \in 1..Len(detailed_steps_buffer) |->
                  [step |-> detailed_steps_buffer[k].step,
                   tool |-> detailed_steps_buffer[k].tool,
                   success |-> Success(detailed_steps_buffer[k])]]]

\* the tool results that report an error
ErrorResults == {R_ErrorText}

\* the record s was written on an error path: the unknown-tool branch or the
\* planner-fault handler (both log under "Error"), the tool-fault handler, or
\* a tool that returned an error text
ErrorPath(s) ==
    \/ s.tool = S_Error
    \/ /\ s.tool \in TOOL_REGISTRY
       /\ \/ StartsWith(s.output, S_ToolExecFailed)
          \/ s.output \in ErrorResults

\* C17: the summary counts the ledger and Memory, and a step's success flag
\* is false exactly for the records written on an error path.
C17_Claim ==
    /\ get_execution_summary.total_steps = Len(detailed_steps_buffer)
    /\ get_execution_summary.memory_entries = Len(memory)
    /\ \A k \in 1..Len(detailed_steps_buffer) :
           get_execution_summary.steps[k].success = ~ErrorPath(detailed_steps_buffer[k])

-----------------------------------------------------------------------------
(* Frame of the branches and the counts at the end of a run.               *)

\* C18: at any iteration a decision with final = true ends the run with the
\* decision's answer as the result; no tool is started, Memory and the step
\* counter stay as they were, and the ledger only gains the planner record.
C18_FinalFrame ==
    [][(Responded /\ planner_decision'.final) =>
          /\ pc' = "done"
          /\ result' = planner_decision'.answer
          /\ tool_calls' = tool_calls
          /\ in_flight' = <<>>
          /\ memory' = memory
          /\ step_count' = step_count
          /\ detailed_steps_buffer' =
                 Append(detailed_steps_buffer,
                        [step |-> Len(detailed_steps_buffer) + 1, tool |-> S_Planner,
                         input |-> PyStr(user_input), output |-> planner_decision'.answer])
          /\ UNCHANGED <<max_steps, user_input, wrapped>>]_vars

\* a final decision at the third iteration, after an unknown name and a tool
C18_Witness ==
    /\ Returned
    /\ event = "final"
    /\ planner_calls = 3
    /\ tool_calls = 1
    /\ UnknownEntries = 1
    /\ Len(memory) = 3
    /\ result = planner_decision.answer

\* C19: the step counter counts the tools that were invoked and came back.
\* A tool that returns or raises increments step_count by exactly one and no
\* other step of a run changes it; so the tool invocations of a run never
\* exceed max_steps, and a run with max_steps = 0 ends with the max-steps
\* message without any planner call.
C19_StepBudget ==
    [][/\ (pc = "tool" /\ event' \in {"tool_ok", "tool_fault"}) =>
             step_count' = step_count + 1
       /\ (step_count' # step_count /\ event' \notin {"run", "clear"}) =>
             (pc = "tool" /\ event' \in {"tool_ok", "tool_fault"})
       /\ event' = "run" => step_count' = 0
       /\ tool_calls' <= max_steps'
       /\ (max_steps = 0 /\ pc' = "done") =>
             /\ planner_calls' = 0
             /\ tool_calls' = 0
             /\ result' = S_MaxStepsA \o <<"0">> \o S_MaxStepsB]_vars

\* a run that used its whole budget of two steps, one of them on a tool fault
C19_Witness ==
    /\ Returned
    /\ event = "max_steps"
    /\ max_steps = 2
    /\ step_count = 2
    /\ tool_calls = 2
    /\ \E k \in 1..Len(detailed_steps_buffer) :
           StartsWith(detailed_steps_buffer[k].output, S_ToolExecFailed)
    /\ \E k \in 1..Len(detailed_steps_buffer) :
           detailed_steps_buffer[k].output = R_Success

\* the planner responses of the run that were parsed into a decision
ParsedDecisions ==
    planner_calls - (IF event = "planner_fault" THEN 1 ELSE 0)
                  - (IF event = "timeout" /\ cancelled = <<"planner">> THEN 1 ELSE 0)
                  - Len(SelectSeq(in_flight, LAMBDA c : c = "planner"))

\* those of them with final = false
NonFinalDecisions == ParsedDecisions - (IF event = "final" THEN 1 ELSE 0)

\* the Error records of the unknown-tool branch
UnknownRecords ==
    Cardinality({k \in 1..Len(detailed_steps_buffer) :
                    /\ detailed_steps_buffer[k].tool = S_Error
                    /\ StartsWith(detailed_steps_buffer[k].output, S_UnknownTool)})

\* the records that end a run: the planner-fault Error record and the
\* System records of the max-steps exit and of the timeout
TerminalRecords ==
    Cardinality({k \in 1..Len(detailed_steps_buffer) :
                    \/ detailed_steps_buffer[k].tool = S_System
                    \/ /\ detailed_steps_buffer[k].tool = S_Error
                       /\ StartsWith(detailed_steps_buffer[k].output, S_PlannerError)})

\* the tool calls of the run that the timeout cancelled
CancelledTools == Len(SelectSeq(cancelled, LAMBDA c : c = "tool"))

\* C20 as stated, at the end of a run: Memory holds the user request and one
\* entry per non-final decision, and the ledger one planner record per
\* parsed decision, one record per tool dispatch or unknown-tool error and
\* at most one terminal record.
C20_Original ==
    Returned =>
        /\ Len(memory) = 1 + NonFinalDecisions
        /\ RecordsOf(S_Planner) = ParsedDecisions
        /\ ToolRecords = tool_calls
        /\ UnknownRecords = NonFinalDecisions - tool_calls
        /\ TerminalRecords <= 1
        /\ Len(detailed_steps_buffer) =
               RecordsOf(S_Planner) + ToolRecords + UnknownRecords + TerminalRecords

\* the Memory entries a step of the run may append
ToolEntries ==
    { [step_summary |-> S_ToolBq \o S_RunBlenderScript \o S_BqReturned \o r] : r \in ToolResults }
        \cup { [step_summary |-> S_ToolError \o S_ToolExecFailed \o e] : e \in ToolFaults }
UnknownEntry(d) ==
    [step_summary |-> S_ErrorColon \o S_UnknownTool \o Format(d.tool_call)]

\* C20: a tool that returns or raises and an unknown tool name each append
\* exactly one Memory entry (the tool's result verbatim, the "Tool execution
\* failed" text, the "Unknown tool" error), and no other step of a run
\* appends any.  At the end of a run, Memory holds the user request and one
\* entry per non-final decision, and the ledger one planner record per parsed
\* decision, one record per tool call or unknown-tool error and at most one
\* terminal record, where a tool call that the timeout cancelled counts for
\* neither a Memory entry nor a record.
C20_EndCounts ==
    [][/\ event' \in {"tool_ok", "tool_fault"} =>
             /\ Len(memory') = Len(memory) + 1
             /\ Last(memory') \in ToolEntries
             /\ (event' = "tool_ok") = (Last(detailed_steps_buffer').output \in ToolResults)
       /\ event' = "unknown" =>
             /\ Len(memory') = Len(memory) + 1
             /\ Last(memory') = UnknownEntry(planner_decision')
       /\ event' \in {"request", "dispatch", "final", "planner_fault", "max_steps", "timeout"} =>
             memory' = memory
       /\ pc' = "done" =>
             /\ Len(memory') = 1 + NonFinalDecisions' - CancelledTools'
             /\ RecordsOf(S_Planner)' = ParsedDecisions'
             /\ ToolRecords' = tool_calls' - CancelledTools'
             /\ UnknownRecords' = NonFinalDecisions' - tool_calls'
             /\ TerminalRecords' = (IF event' = "final" THEN 0 ELSE 1)
             /\ Len(detailed_steps_buffer') =
                    RecordsOf(S_Planner)' + ToolRecords' + UnknownRecords' + TerminalRecords']_vars

\* a run that met an unknown name, had a tool return and was then cancelled
\* by the timeout while its second tool call was awaited
C20_Witness ==
    /\ Returned
    /\ event = "timeout"
    /\ cancelled = <<"tool">>
    /\ tool_calls = 2
    /\ UnknownRecords = 1
    /\ Len(memory) = 3
    /\ NonFinalDecisions = 3

-----------------------------------------------------------------------------
(* generate_blender_script: src/tools.py.                                  *)

\* the text returned by create_fallback_script
S_FallbackScript ==
    <<"i","m","p","o","r","t"," ","b","p","y","\n","i","m","p","o","r","t"," ","r","a","n","d",
      "o","m","\n","i","m","p","o","r","t"," ","m","a","t","h","\n","f","r","o","m"," ","m","a",
      "t","h","u","t","i","l","s"," ","i","m","p","o","r","t"," ","V","e","c","t","o","r",",",
      " ","E","u","l","e","r","\n","\n","#"," ","C","l","e","a","n"," ","s","c","e","n","e",
      "\n","t","r","y",":","\n"," "," "," "," ","b","p","y",".","o","p","s",".","o","b","j","e",
      "c","t",".","s","e","l","e","c","t","_","a","l","l","(","a","c","t","i","o","n","=","'",
      "D","E","S","E","L","E","C","T","'",")","\n"," "," "," "," ","b","p","y",".","o","p","s",
      ".","o","b","j","e","c","t",".","s","e","l","e","c","t","_","b","y","_","t","y","p","e",
      "(","t","y","p","e","=","'","M","E","S","H","'",")","\n"," "," "," "," ","b","p","y",".",
      "o","p","s",".","o","b","j","e","c","t",".","d","e","l","e","t","e","(",")","\n","e","x",
      "c","e","p","t",":","\n"," "," "," "," ","p","a","s","s","\n","\n","#"," ","C","r","e",
      "a","t","e"," ","p","r","o","p","e","r","l","y"," ","p","o","s","i","t","i","o","n","e",
      "d"," ","o","b","j","e","c","t","s","\n","t","r","y",":","\n"," "," "," "," ","#"," ","C",
      "r","e","a","t","e"," ","a"," ","g","r","o","u","n","d"," ","p","l","a","n","e","\n"," ",
      " "," "," ","b","p","y",".","o","p","s",".","m","e","s","h",".","p","r","i","m","i","t",
      "i","v","e","_","p","l","a","n","e","_","a","d","d","(","s","i","z","e","=","1","0",",",
      " ","l","o","c","a","t","i","o","n","=","(","0",","," ","0",","," ","0",")",")","\n"," ",
      " "," "," ","g","r","o","u","n","d"," ","="," ","b","p","y",".","c","o","n","t","e","x",
      "t",".","a","c","t","i","v","e","_","o","b","j","e","c","t","\n"," "," "," "," ","i","f",
      " ","g","r","o","u","n","d",":","\n"," "," "," "," "," "," "," "," ","g","r","o","u","n",
      "d",".","n","a","m","e"," ","="," ","\"","G","r","o","u","n","d","\"","\n","\n"," "," ",
      " "," ","#"," ","C","r","e","a","t","e"," ","m","a","i","n"," ","o","b","j","e","c","t",
      " ","p","o","s","i","t","i","o","n","e","d"," ","l","o","g","i","c","a","l","l","y"," ",
      "a","b","o","v","e"," ","g","r","o","u","n","d","\n"," "," "," "," ","b","p","y",".","o",
      "p","s",".","m","e","s","h",".","p","r","i","m","i","t","i","v","e","_","u","v","_","s",
      "p","h","e","r","e","_","a","d","d","(","r","a","d","i","u","s","=","1",","," ","l","o",
      "c","a","t","i","o","n","=","(","0",","," ","0",","," ","1",".","5",")",")","\n"," "," ",
      " "," ","m","a","i","n","_","o","b","j"," ","="," ","b","p","y",".","c","o","n","t","e",
      "x","t",".","a","c","t","i","v","e","_","o","b","j","e","c","t","\n"," "," "," "," ","i",
      "f"," ","m","a","i","n","_","o","b","j",":","\n"," "," "," "," "," "," "," "," ","m","a",
      "i","n","_","o","b","j",".","n","a","m","e"," ","="," ","\"","G","e","n","e","r","a","t",
      "e","d","_","O","b","j","e","c","t","\"","\n","\n"," "," "," "," "," "," "," "," ","#",
      " ","A","p","p","l","y"," ","a"," ","s","l","i","g","h","t"," ","r","a","n","d","o","m",
      " ","r","o","t","a","t","i","o","n"," ","u","s","i","n","g"," ","p","r","o","p","e","r",
      " ","E","u","l","e","r"," ","a","n","g","l","e","s","\n"," "," "," "," "," "," "," "," ",
      "m","a","i","n","_","o","b","j",".","r","o","t","a","t","i","o","n","_","e","u","l","e",
      "r"," ","="," ","E","u","l","e","r","(","(","\n"," "," "," "," "," "," "," "," "," "," ",
      " "," ","m","a","t","h",".","r","a","d","i","a","n","s","(","r","a","n","d","o","m",".",
      "u","n","i","f","o","r","m","(","-","1","5",","," ","1","5",")",")",",","\n"," "," "," ",
      " "," "," "," "," "," "," "," "," ","m","a","t","h",".","r","a","d","i","a","n","s","(",
      "r","a","n","d","o","m",".","u","n","i","f","o","r","m","(","-","1","5",","," ","1","5",
      ")",")",","," ","\n"," "," "," "," "," "," "," "," "," "," "," "," ","m","a","t","h",".",
      "r","a","d","i","a","n","s","(","r","a","n","d","o","m",".","u","n","i","f","o","r","m",
      "(","0",","," ","3","6","0",")",")","\n"," "," "," "," "," "," "," "," ",")",","," ","'",
      "X","Y","Z","'",")","\n","\n"," "," "," "," "," "," "," "," ","#"," ","A","d","d"," ","s",
      "u","b","d","i","v","i","s","i","o","n"," ","w","i","t","h"," ","p","r","o","p","e","r",
      " ","e","r","r","o","r"," ","h","a","n","d","l","i","n","g","\n"," "," "," "," "," "," ",
      " "," ","t","r","y",":","\n"," "," "," "," "," "," "," "," "," "," "," "," ","s","u","b",
      "s","u","r","f"," ","="," ","m","a","i","n","_","o","b","j",".","m","o","d","i","f","i",
      "e","r","s",".","n","e","w","(","n","a","m","e","=","'","S","u","b","d","i","v","i","s",
      "i","o","n","'",","," ","t","y","p","e","=","'","S","U","B","S","U","R","F","'",")","\n",
      " "," "," "," "," "," "," "," "," "," "," "," ","s","u","b","s","u","r","f",".","l","e",
      "v","e","l","s"," ","="," ","2","\n"," "," "," "," "," "," "," "," ","e","x","c","e","p",
      "t",":","\n"," "," "," "," "," "," "," "," "," "," "," "," ","p","a","s","s","\n","\n",
      " "," "," "," "," "," "," "," ","#"," ","C","r","e","a","t","e"," ","a","n","d"," ","a",
      "s","s","i","g","n"," ","m","a","t","e","r","i","a","l","\n"," "," "," "," "," "," "," ",
      " ","t","r","y",":","\n"," "," "," "," "," "," "," "," "," "," "," "," ","m","a","t"," ",
      "="," ","b","p","y",".","d","a","t","a",".","m","a","t","e","r","i","a","l","s",".","n",
      "e","w","(","n","a","m","e","=","'","G","e","n","e","r","a","t","e","d","_","M","a","t",
      "e","r","i","a","l","'",")","\n"," "," "," "," "," "," "," "," "," "," "," "," ","m","a",
      "t",".","u","s","e","_","n","o","d","e","s"," ","="," ","T","r","u","e","\n","\n"," "," ",
      " "," "," "," "," "," "," "," "," "," ","#"," ","G","e","t"," ","p","r","i","n","c","i",
      "p","l","e","d"," ","B","S","D","F","\n"," "," "," "," "," "," "," "," "," "," "," "," ",
      "b","s","d","f"," ","="," ","N","o","n","e","\n"," "," "," "," "," "," "," "," "," "," ",
      " "," ","f","o","r"," ","n","o","d","e"," ","i","n"," ","m","a","t",".","n","o","d","e",
      "_","t","r","e","e",".","n","o","d","e","s",":","\n"," "," "," "," "," "," "," "," "," ",
      " "," "," "," "," "," "," ","i","f"," ","n","o","d","e",".","t","y","p","e"," ","=","=",
      " ","'","B","S","D","F","_","P","R","I","N","C","I","P","L","E","D","'",":","\n"," "," ",
      " "," "," "," "," "," "," "," "," "," "," "," "," "," "," "," "," "," ","b","s","d","f",
      " ","="," ","n","o","d","e","\n"," "," "," "," "," "," "," "," "," "," "," "," "," "," ",
      " "," "," "," "," "," ","b","r","e","a","k","\n","\n"," "," "," "," "," "," "," "," "," ",
      " "," "," ","i","f"," ","b","s","d","f"," ","a","n","d"," ","'","B","a","s","e"," ","C",
      "o","l","o","r","'"," ","i","n"," ","b","s","d","f",".","i","n","p","u","t","s",":","\n",
      " "," "," "," "," "," "," "," "," "," "," "," "," "," "," "," ","b","s","d","f",".","i",
      "n","p","u","t","s","[","'","B","a","s","e"," ","C","o","l","o","r","'","]",".","d","e",
      "f","a","u","l","t","_","v","a","l","u","e"," ","="," ","(","\n"," "," "," "," "," "," ",
      " "," "," "," "," "," "," "," "," "," "," "," "," "," ","r","a","n","d","o","m",".","r",
      "a","n","d","o","m","(",")",","," ","\n"," "," "," "," "," "," "," "," "," "," "," "," ",
      " "," "," "," "," "," "," "," ","r","a","n","d","o","m",".","r","a","n","d","o","m","(",
      ")",","," ","\n"," "," "," "," "," "," "," "," "," "," "," "," "," "," "," "," "," "," ",
      " "," ","r","a","n","d","o","m",".","r","a","n","d","o","m","(",")",","," ","\n"," "," ",
      " "," "," "," "," "," "," "," "," "," "," "," "," "," "," "," "," "," ","1",".","0","\n",
      " "," "," "," "," "," "," "," "," "," "," "," "," "," "," "," ",")","\n","\n"," "," "," ",
      " "," "," "," "," "," "," "," "," ","#"," ","A","s","s","i","g","n"," ","m","a","t","e",
      "r","i","a","l","\n"," "," "," "," "," "," "," "," "," "," "," "," ","i","f"," ","l","e",
      "n","(","m","a","i","n","_","o","b","j",".","d","a","t","a",".","m","a","t","e","r","i",
      "a","l","s",")"," ","=","="," ","0",":","\n"," "," "," "," "," "," "," "," "," "," "," ",
      " "," "," "," "," ","m","a","i","n","_","o","b","j",".","d","a","t","a",".","m","a","t",
      "e","r","i","a","l","s",".","a","p","p","e","n","d","(","m","a","t",")","\n"," "," "," ",
      " "," "," "," "," "," "," "," "," ","e","l","s","e",":","\n"," "," "," "," "," "," "," ",
      " "," "," "," "," "," "," "," "," ","m","a","i","n","_","o","b","j",".","d","a","t","a",
      ".","m","a","t","e","r","i","a","l","s","[","0","]"," ","="," ","m","a","t","\n","\n"," ",
      " "," "," "," "," "," "," ","e","x","c","e","p","t"," ","E","x","c","e","p","t","i","o",
      "n"," ","a","s"," ","e",":","\n"," "," "," "," "," "," "," "," "," "," "," "," ","p","r",
      "i","n","t","(","f","\"","M","a","t","e","r","i","a","l"," ","c","r","e","a","t","i","o",
      "n"," ","e","r","r","o","r",":"," ","{","e","}","\"",")","\n","\n"," "," "," "," ","#",
      " ","A","d","d"," ","a"," ","c","o","u","p","l","e"," ","m","o","r","e"," ","o","b","j",
      "e","c","t","s"," ","w","i","t","h"," ","l","o","g","i","c","a","l"," ","p","o","s","i",
      "t","i","o","n","i","n","g","\n"," "," "," "," ","t","r","y",":","\n"," "," "," "," "," ",
      " "," "," ","#"," ","O","b","j","e","c","t"," ","t","o"," ","t","h","e"," ","s","i","d",
      "e","\n"," "," "," "," "," "," "," "," ","b","p","y",".","o","p","s",".","m","e","s","h",
      ".","p","r","i","m","i","t","i","v","e","_","c","u","b","e","_","a","d","d","(","s","i",
      "z","e","=","0",".","8",","," ","l","o","c","a","t","i","o","n","=","(","3",","," ","0",
      ","," ","0",".","4",")",")","\n"," "," "," "," "," "," "," "," ","s","i","d","e","_","o",
      "b","j"," ","="," ","b","p","y",".","c","o","n","t","e","x","t",".","a","c","t","i","v",
      "e","_","o","b","j","e","c","t","\n"," "," "," "," "," "," "," "," ","i","f"," ","s","i",
      "d","e","_","o","b","j",":","\n"," "," "," "," "," "," "," "," "," "," "," "," ","s","i",
      "d","e","_","o","b","j",".","n","a","m","e"," ","="," ","\"","S","i","d","e","_","O","b",
      "j","e","c","t","\"","\n","\n"," "," "," "," "," "," "," "," ","#"," ","O","b","j","e",
      "c","t"," ","i","n"," ","b","a","c","k","\n"," "," "," "," "," "," "," "," ","b","p","y",
      ".","o","p","s",".","m","e","s","h",".","p","r","i","m","i","t","i","v","e","_","c","y",
      "l","i","n","d","e","r","_","a","d","d","(","r","a","d","i","u","s","=","0",".","6",",",
      " ","d","e","p","t","h","=","1",".","5",","," ","l","o","c","a","t","i","o","n","=","(",
      "0",","," ","-","3",","," ","0",".","7","5",")",")","\n"," "," "," "," "," "," "," "," ",
      "b","a","c","k","_","o","b","j"," ","="," ","b","p","y",".","c","o","n","t","e","x","t",
      ".","a","c","t","i","v","e","_","o","b","j","e","c","t","\n"," "," "," "," "," "," "," ",
      " ","i","f"," ","b","a","c","k","_","o","b","j",":","\n"," "," "," "," "," "," "," "," ",
      " "," "," "," ","b","a","c","k","_","o","b","j",".","n","a","m","e"," ","="," ","\"","B",
      "a","c","k","_","O","b","j","e","c","t","\"","\n","\n"," "," "," "," ","e","x","c","e",
      "p","t"," ","E","x","c","e","p","t","i","o","n"," ","a","s"," ","e",":","\n"," "," "," ",
      " "," "," "," "," ","p","r","i","n","t","(","f","\"","A","d","d","i","t","i","o","n","a",
      "l"," ","o","b","j","e","c","t"," ","c","r","e","a","t","i","o","n"," ","e","r","r","o",
      "r",":"," ","{","e","}","\"",")","\n","\n","e","x","c","e","p","t"," ","E","x","c","e",
      "p","t","i","o","n"," ","a","s"," ","e",":","\n"," "," "," "," ","p","r","i","n","t","(",
      "f","\"","O","b","j","e","c","t"," ","c","r","e","a","t","i","o","n"," ","e","r","r","o",
      "r",":"," ","{","e","}","\"",")","\n">>
\* "```python"
S_FencePython ==
    <<"bq","bq","bq","p","y","t","h","o","n">>
\* "```"
S_Fence ==
    <<"bq","bq","bq">>
\* "Here"
S_Here ==
    <<"H","e","r","e">>
\* "The corrected"
S_TheCorrected ==
    <<"T","h","e"," ","c","o","r","r","e","c","t","e","d">>
\* "Fixed"
S_Fixed ==
    <<"F","i","x","e","d">>
\* "VALID"
S_VALID ==
    <<"V","A","L","I","D">>
\* "import bpy"
S_ImportBpy ==
    <<"i","m","p","o","r","t"," ","b","p","y">>
\* "import bpy\n"
S_ImportBpyNl ==
    <<"i","m","p","o","r","t"," ","b","p","y","\n">>

\* max_retries of generate_blender_script
max_retries == 3
\* the least length of a cleaned answer that is taken as a script
min_code_length == 50

\* the first index >= i at which p occurs in s, or 0
RECURSIVE Find(_, _, _)
Find(s, p, i) ==
    IF i + Len(p) - 1 > Len(s) THEN 0
    ELSE IF SubSeq(s, i, i + Len(p) - 1) = p THEN i
    ELSE Find(s, p, i + 1)

\* "p in s"
Contains(s, p) == Find(s, p, 1) # 0

\* s.split(p, 1)[1] and s.split(p)[0] for a p that occurs in s
AfterFirst(s, p) == SubSeq(s, Find(s, p, 1) + Len(p), Len(s))
BeforeFirst(s, p) == SubSeq(s, 1, Find(s, p, 1) - 1)

\* s.split('\n')
RECURSIVE SplitLines(_)
SplitAt(s, k) ==
    IF k = 0 THEN <<s>>
    ELSE <<SubSeq(s, 1, k - 1)>> \o SplitLines(SubSeq(s, k + 1, Len(s)))
SplitLines(s) == SplitAt(s, Find(s, S_Newline, 1))

\* '\n'.join(lines)
RECURSIVE JoinLines(_)
JoinLines(lines) ==
    IF lines = <<>> THEN <<>>
    ELSE IF Len(lines) = 1 THEN lines[1]
    ELSE lines[1] \o S_Newline \o JoinLines(Tail(lines))

\* the two split steps on the fence markers
AfterFencePython(code) == IF Contains(code, S_FencePython) THEN AfterFirst(code, S_FencePython) ELSE code
BeforeFence(code) == IF Contains(code, S_Fence) THEN BeforeFirst(code, S_Fence) ELSE code

\* the lines that clean_code_output drops
DroppedLine(line) ==
    \/ StartsWith(Strip(line), S_Here)
    \/ StartsWith(Strip(line), S_TheCorrected)
    \/ StartsWith(Strip(line), S_Fixed)

clean_code_output(code) ==
    Strip(JoinLines(SelectSeq(SplitLines(Strip(BeforeFence(AfterFencePython(code)))),
                              LAMBDA line : ~DroppedLine(line))))

\* "if not generated_code or len(generated_code) < 50"
TooShort(code) == code = <<>> \/ Len(code) < min_code_length

\* the code after "if 'import bpy' not in generated_code"
WithImport(code) == IF Contains(code, S_ImportBpy) THEN code ELSE S_ImportBpyNl \o code

\* validate_blender_script(code) when the validation model answers r: the
\* pair (is_valid, code) it returns; a fault of the model is caught inside
validate_blender_script(code, r) ==
    IF r.fault THEN [is_valid |-> TRUE, code |-> code]
    ELSE IF Strip(r.content) = S_VALID THEN [is_valid |-> TRUE, code |-> code]
    ELSE [is_valid |-> FALSE, code |-> clean_code_output(r.content)]

create_fallback_script(d) == S_FallbackScript

\* "Here is the script:\n```python\nimport bpy\nbpy.ops.mesh.primitive_cube_add(size=2, location=(0, 0, 1))\n```\nEnjoy"
G_Fenced ==
    <<"H","e","r","e"," ","i","s"," ","t","h","e"," ","s","c","r","i","p","t",":","\n","bq",
      "bq","bq","p","y","t","h","o","n","\n","i","m","p","o","r","t"," ","b","p","y","\n","b",
      "p","y",".","o","p","s",".","m","e","s","h",".","p","r","i","m","i","t","i","v","e","_",
      "c","u","b","e","_","a","d","d","(","s","i","z","e","=","2",","," ","l","o","c","a","t",
      "i","o","n","=","(","0",","," ","0",","," ","1",")",")","\n","bq","bq","bq","\n","E","n",
      "j","o","y">>
\* "bpy.ops.mesh.primitive_uv_sphere_add(radius=1, location=(0, 0, 1))\n"
G_NoImport ==
    <<"b","p","y",".","o","p","s",".","m","e","s","h",".","p","r","i","m","i","t","i","v","e",
      "_","u","v","_","s","p","h","e","r","e","_","a","d","d","(","r","a","d","i","u","s","=",
      "1",","," ","l","o","c","a","t","i","o","n","=","(","0",","," ","0",","," ","1",")",")",
      "\n">>
\* "import bpy"
G_Short ==
    <<"i","m","p","o","r","t"," ","b","p","y">>
\* "Here is a script that builds the requested model for you:\nimport bpy\nbpy.ops.mesh.primitive_cube_add()"
G_Chatter ==
    <<"H","e","r","e"," ","i","s"," ","a"," ","s","c","r","i","p","t"," ","t","h","a","t"," ",
      "b","u","i","l","d","s"," ","t","h","e"," ","r","e","q","u","e","s","t","e","d"," ","m",
      "o","d","e","l"," ","f","o","r"," ","y","o","u",":","\n","i","m","p","o","r","t"," ","b",
      "p","y","\n","b","p","y",".","o","p","s",".","m","e","s","h",".","p","r","i","m","i","t",
      "i","v","e","_","c","u","b","e","_","a","d","d","(",")">>
\* "```python\nimport bpy\nbpy.ops.mesh.primitive_cube_add(size=2)\n```"
G_Len50 ==
    <<"bq","bq","bq","p","y","t","h","o","n","\n","i","m","p","o","r","t"," ","b","p","y","\n",
      "b","p","y",".","o","p","s",".","m","e","s","h",".","p","r","i","m","i","t","i","v","e",
      "_","c","u","b","e","_","a","d","d","(","s","i","z","e","=","2",")","\n","bq","bq","bq">>
\* "```python\nimport bpy\nbpy.ops.mesh.primitive_cube_add(size=2\n```"
G_Len49 ==
    <<"bq","bq","bq","p","y","t","h","o","n","\n","i","m","p","o","r","t"," ","b","p","y","\n",
      "b","p","y",".","o","p","s",".","m","e","s","h",".","p","r","i","m","i","t","i","v","e",
      "_","c","u","b","e","_","a","d","d","(","s","i","z","e","=","2","\n","bq","bq","bq">>
\* ""
G_Empty ==
    <<>>
\* "VALID\n"
A_Valid ==
    <<"V","A","L","I","D","\n">>
\* "The corrected script:\n```python\nimport bpy\n  Fixed = 1\nbpy.ops.mesh.primitive_cone_add()\n```"
A_Corrected ==
    <<"T","h","e"," ","c","o","r","r","e","c","t","e","d"," ","s","c","r","i","p","t",":","\n",
      "bq","bq","bq","p","y","t","h","o","n","\n","i","m","p","o","r","t"," ","b","p","y","\n",
      " "," ","F","i","x","e","d"," ","="," ","1","\n","b","p","y",".","o","p","s",".","m","e",
      "s","h",".","p","r","i","m","i","t","i","v","e","_","c","o","n","e","_","a","d","d","(",
      ")","\n","bq","bq","bq">>
\* "```python\n```"
A_NoCode ==
    <<"bq","bq","bq","p","y","t","h","o","n","\n","bq","bq","bq">>
\* "a red cube"
D_cube ==
    <<"a"," ","r","e","d"," ","c","u","b","e">>
\* "a chair"
D_chair ==
    <<"a"," ","c","h","a","i","r">>

\* what the caller and the two script models may supply
Descriptions == {D_cube, D_chair}
Fault == [fault |-> TRUE, content |-> <<>>]
Answer(text) == [fault |-> FALSE, content |-> text]
GenerationAnswers == {G_Fenced, G_NoImport, G_Short, G_Chatter, G_Len50, G_Len49, G_Empty}
ValidationAnswers == {A_Valid, A_Corrected, A_NoCode}
ValidationResponses == {Answer(a) : a \in ValidationAnswers} \cup {Fault}
Cleaned == [text \in GenerationAnswers |-> clean_code_output(text)]
Validated ==
    [code \in {WithImport(Cleaned[g]) : g \in GenerationAnswers}, r \in ValidationResponses |->
        validate_blender_script(code, r)]

\* generate_blender_script(d) is entered
GenInit ==
    /\ pc = "gen_loop"
    /\ description \in Descriptions
    /\ attempt = 0
    /\ generated_code = <<>>
    /\ script = <<>>
    /\ llm_response = NoResponse
    /\ attempts_log = <<>>
    /\ generation_requests = 0
    /\ validation_requests = 0
    /\ input = NoInput
    /\ parsed = NotParsed
    /\ max_steps = 0
    /\ wrapped = FALSE
    /\ user_input = <<>>
    /\ step_count = 0
    /\ memory = <<>>
    /\ detailed_steps_buffer = <<>>
    /\ planner_decision = NoFields
    /\ result = <<>>
    /\ planner_calls = 0
    /\ tool_calls = 0
    /\ event = "init"
    /\ in_flight = <<>>
    /\ cancelled = <<>>
    /\ context_summary = <<>>
    /\ last_outcome = "none"

\* "for attempt in range(max_retries)": the next attempt sends its request
GenerationRequest ==
    /\ pc = "gen_loop"
    /\ attempt < max_retries
    /\ generation_requests' = generation_requests + 1
    /\ pc' = "generating"
    /\ UNCHANGED <<description, attempt, generated_code, script, llm_response,
                   attempts_log, validation_requests>>
    /\ UNCHANGED agent_vars

\* the loop is over: the return after it
LoopExhausted ==
    /\ pc = "gen_loop"
    /\ ~(attempt < max_retries)
    /\ script' = create_fallback_script(description)
    /\ pc' = "gen_done"
    /\ UNCHANGED <<description, attempt, generated_code, llm_response,
                   attempts_log, generation_requests, validation_requests>>
    /\ UNCHANGED agent_vars

\* the generation model answers with text: too short a cleaned answer goes to
\* the next attempt, any other is sent to validate_blender_script
GenerationAnswered(text) ==
    /\ pc = "generating"
    /\ llm_response' = Answer(text)
    /\ IF TooShort(Cleaned[text]) THEN
           /\ attempts_log' = Append(attempts_log, [outcome |-> "short", length |-> Len(Cleaned[text])])
           /\ attempt' = attempt + 1
           /\ pc' = "gen_loop"
           /\ UNCHANGED <<generated_code, validation_requests>>
       ELSE
           /\ attempts_log' = Append(attempts_log, [outcome |-> "ok", length |-> Len(Cleaned[text])])
           /\ generated_code' = WithImport(Cleaned[text])
           /\ validation_requests' = validation_requests + 1
           /\ pc' = "validating"
           /\ UNCHANGED attempt
    /\ UNCHANGED <<description, script, generation_requests>>
    /\ UNCHANGED agent_vars

\* a fault of the generation request that would leave the function
GenerationFault_Propagates ==
    /\ pc = "generating"
    /\ llm_response' = Fault
    /\ attempts_log' = Append(attempts_log, [outcome |-> "fault", length |-> 0])
    /\ pc' = "gen_raised"
    /\ UNCHANGED <<description, attempt, generated_code, script,
                   generation_requests, validation_requests>>
    /\ UNCHANGED agent_vars

\* the generation request (or the cleaning of its answer) raises: the except
\* branch of the attempt
GenerationFault ==
    /\ pc = "generating"
    /\ llm_response' = Fault
    /\ attempts_log' = Append(attempts_log, [outcome |-> "fault", length |-> 0])
    /\ IF attempt = max_retries - 1 THEN
           /\ script' = create_fallback_script(description)
           /\ pc' = "gen_done"
           /\ UNCHANGED attempt
       ELSE
           /\ attempt' = attempt + 1
           /\ pc' = "gen_loop"
           /\ UNCHANGED script
    /\ UNCHANGED <<description, generated_code, generation_requests,
                   validation_requests>>
    /\ UNCHANGED agent_vars

\* validate_blender_script is over with the response r of its model: both
\* branches of "if is_valid" return validated_code
ValidationOver(r) ==
    /\ pc = "validating"
    /\ llm_response' = r
    /\ script' = Validated[generated_code, r].code
    /\ pc' = "gen_done"
    /\ UNCHANGED <<description, attempt, generated_code, attempts_log,
                   generation_requests, validation_requests>>
    /\ UNCHANGED agent_vars

GenNext ==
    \/ GenerationRequest
    \/ LoopExhausted
    \/ \E text \in GenerationAnswers : GenerationAnswered(text)
    \/ GenerationFault
    \/ \E r \in ValidationResponses : ValidationOver(r)

GenSpec == GenInit /\ [][GenNext]_vars

\* C21: generate_blender_script retries a bounded number of times and never
\* raises.  It sends at most 3 generation requests and at most one validation
\* request; an attempt that faults or whose cleaned code has fewer than 50
\* characters is followed by the next attempt, the first attempt whose
\* cleaned code has at least 50 characters is the last one and the function
\* returns what validate_blender_script gives for it (the code itself when
\* the validation model says VALID or faults, its cleaned answer otherwise),
\* and after 3 attempts that faulted or were too short the function returns
\* the fallback script.
C21_BoundedRetry ==
    /\ pc \in {"gen_loop", "generating", "validating", "gen_done"}
    /\ generation_requests <= 3
    /\ validation_requests <= 1
    /\ generation_requests = Len(attempts_log) + (IF pc = "generating" THEN 1 ELSE 0)
    /\ \A k \in 1..Len(attempts_log) :
           /\ attempts_log[k].outcome = "short" => attempts_log[k].length < 50
           /\ attempts_log[k].outcome = "ok" =>
                  (attempts_log[k].length >= 50 /\ k = Len(attempts_log))
    /\ (validation_requests = 1) =
           (attempts_log # <<>> /\ Last(attempts_log).outcome = "ok")
    /\ (pc = "gen_loop" /\ Len(attempts_log) < 3) => attempt = Len(attempts_log)
    /\ pc = "validating" => Len(generated_code) >= 50
    /\ pc = "gen_done" =>
           IF validation_requests = 1
           THEN script = (IF llm_response.fault \/ Strip(llm_response.content) = S_VALID
                          THEN generated_code
                          ELSE clean_code_output(llm_response.content))
           ELSE /\ Len(attempts_log) = 3
                /\ \A k \in 1..3 : attempts_log[k].outcome \in {"fault", "short"}
                /\ script = S_FallbackScript

\* the first attempt faulted, the second was one character short, and the
\* third was validated and returned in the validator's corrected form
C21_Witness ==
    /\ pc = "gen_done"
    /\ Len(attempts_log) = 3
    /\ attempts_log[1].outcome = "fault"
    /\ attempts_log[2] = [outcome |-> "short", length |-> 49]
    /\ attempts_log[3].outcome = "ok"
    /\ generation_requests = 3
    /\ validation_requests = 1
    /\ script = clean_code_output(A_Corrected)
    /\ script # generated_code

====
